---- MODULE Spec2Model ----
(***************************************************************************)
(* A model of pipe-steps: the resumable batch runner (BatchPipeline with   *)
(* its Frontier and checkpoint store), the step-by-step CheckpointPipeline *)
(* and the graph engine (PathPipeline of prototypes/solution4_graph).  The *)
(* parts share no state; each has its own specifications.  For the runner: *)
(* SpecBatch (any calls), SpecCollect (runs over long sources),            *)
(* SpecTerminate (a run without failure, under weak fairness), SpecResume  *)
(* (resuming runs and restarts), SpecTwo (two objects on one directory)    *)
(* and SpecFrontier (a Frontier called directly).  SpecCheckpoint for the  *)
(* checkpoint pipeline.  For the engine: SpecGraph (any calls), SpecBuild  *)
(* (add_step and connect alone), SpecRing and SpecDiamond (two graphs of   *)
(* the demos, built in any order).                                         *)
(***************************************************************************)
EXTENDS Integers, Sequences, FiniteSets, TLC

(***************************************************************************)
(* Bounds of the model.                                                    *)
(***************************************************************************)
\* rows of the source dataset: 0..MaxRows
MaxRows == 5
\* rows per batch (BatchPipeline.batch_size); the demo uses 5, the default is 50000
BatchSize == 2
\* at most this many rows of the dataset hold a null
MaxNulls == 1
\* connections the graph may hold
MaxConns == 2
\* rows of the largest source of the collect_results scenario
MaxCollectRows == 31
\* rows of the largest DataFrame given to the checkpoint pipeline
MaxDfRows == 2

VARIABLES
    \* ---- batch runner: the environment
    nrows,          \* len(data) of the source dataset
    nulls,          \* the row indexes of the dataset that hold a null
    \* ---- batch runner: durable state (the checkpoint directory)
    disk,           \* frontier.json: a JSON object, or NoRecord when the file is absent
    checkpoints,    \* batch_<id>.parquet: a function batch id -> data, on the ids present
    \* ---- batch runner: the BatchPipeline object and the position of run()
    frontier,       \* self.frontier
    pc,             \* "idle", "fetch", "step", "checkpoint", "advance", "save", "done", "failed"
    resume,         \* the resume argument of the current (or last) run
    batch_id,       \* the local batch_id of run()
    si,             \* number of steps of self.steps that returned on the current batch
    current,        \* the local current_batch of run(), or NoBatch
    error,          \* what raised out of the last run: "none", "fetch", "transform", ...
    \* ---- batch runner: history (ghost) variables
    fetch_log,      \* the batch ids the batch source was called with in the current run
    run_N,          \* frontier.last_completed_batch_id when the current run was called
    start_ckpt,     \* the checkpoints when the current run was called
    start_disk,     \* the durable record when the current run was called
    start_frontier, \* self.frontier when the current run was called
    prior,          \* how this runner's run before the current one ended
    last_passed,    \* last batch on which every transform returned, since the last fresh start
    \* ---- graph engine: the PathPipeline object
    g_steps,        \* self.steps: the registered step ids, in insertion order
    g_graph,        \* self.graph: step id -> list of dependent step ids
    connections,    \* self.connections: the connection log
    \* ---- graph engine: the outcome of the last call
    g_result,       \* "none", "ok", "returned", "validated" or the error the call raised
    g_start,        \* the start_step argument of the last run
    g_errors,       \* the list the last validate returned
    g_unprocessed,  \* the steps a cycle error of _topological_sort names
    g_order,        \* the execution order the last run computed
    invoked,        \* the steps whose process the last run invoked, with their inputs
    step_outputs,   \* the mapping the last run returned (empty when it raised)
    \* ---- checkpoint pipeline: the CheckpointPipeline object and its directory
    cp_steps,       \* self.steps: the configured steps, in order
    cp_files,       \* <step name>.parquet: step name -> DataFrame, on the names present
    \* ---- checkpoint pipeline: the outcome of the last call
    cp_result,      \* what the last call did: constructed, returned a DataFrame, raised
    cp_executed,    \* the indexes of the steps whose process the last run called
    \* ---- checkpoint pipeline: history (ghost) variable
    cp_done,        \* input and result of the last run that executed every step
    \* ---- batch runner: a second BatchPipeline object on the same directory
    frontier2,      \* its self.frontier
    pc2,            \* the position of its run()
    batch_id2,      \* the local batch_id of its run()
    si2,            \* number of its steps that returned on its current batch
    current2        \* the local current_batch of its run(), or NoBatch

bvars == <<nrows, nulls, disk, checkpoints, frontier, pc, resume, batch_id, si,
           current, error, fetch_log, run_N, start_ckpt, start_disk,
           start_frontier, prior, last_passed>>

gvars == <<g_steps, g_graph, connections, g_result, g_start, g_errors,
           g_unprocessed, g_order, invoked, step_outputs>>

cvars == <<cp_steps, cp_files, cp_result, cp_executed, cp_done>>

rvars == <<frontier2, pc2, batch_id2, si2, current2>>

vars == <<bvars, gvars, cvars, rvars>>

(***************************************************************************)
(* Values.                                                                 *)
(***************************************************************************)
\* a null cell of the tabular data
Null == 0
NoRecord == [absent |-> TRUE]
NoBatch == [absent |-> TRUE]
EmptyMap == [x \in {} |-> 0]
\* start_step=None
NoStart == "None"

Min2(a, b) == IF a <= b THEN a ELSE b

\* the configured steps of the failure demo: drop-null-rows, then multiply-column
Steps == <<"drop_nulls", "add_feature1">>
StepNames == {Steps[i] : i \in 1..Len(Steps)}
\* AddColumnBatchStep("add_feature1", "value", multiplier=3, ...)
Multiplier == 3

(***************************************************************************)
(* Frontier (frontier.py).                                                 *)
(***************************************************************************)
\* Frontier(): the dataclass defaults
FreshFrontier ==
    [last_completed_batch_id |-> -1,
     last_completed_row |-> -1,
     total_rows_processed |-> 0,
     step_states |-> EmptyMap]

\* faulty variant of Frontier.update_step: a recorded completion never goes down
update_step_KeepsMax(f, step_name, b) ==
    [f EXCEPT !.step_states =
        [n \in (DOMAIN f.step_states) \cup {step_name} |->
            IF n = step_name
            THEN IF n \in DOMAIN f.step_states /\ f.step_states[n] > b
                 THEN f.step_states[n] ELSE b
            ELSE f.step_states[n]]]

\* Frontier.update_step: self.step_states[step_name] = batch_id
update_step(f, step_name, b) ==
    [f EXCEPT !.step_states =
        [n \in (DOMAIN f.step_states) \cup {step_name} |->
            IF n = step_name THEN b ELSE f.step_states[n]]]

\* faulty variant of Frontier.advance_frontier: total_rows_processed = end_row
advance_frontier_TotalIsEndRow(f, b, end_row) ==
    [f EXCEPT !.last_completed_batch_id = b,
              !.last_completed_row = end_row,
              !.total_rows_processed = end_row]

\* Frontier.advance_frontier
advance_frontier(f, b, end_row) ==
    [f EXCEPT !.last_completed_batch_id = b,
              !.last_completed_row = end_row,
              !.total_rows_processed = end_row + 1]

\* Frontier.all_steps_completed: step_states.get(step, -1) >= batch_id for all steps
StepState(f, n) == IF n \in DOMAIN f.step_states THEN f.step_states[n] ELSE -1
all_steps_completed(f, b, names) == \A n \in names : StepState(f, n) >= b

\* Frontier.save: the JSON object written to frontier.json
FrontierToJson(f) ==
    [last_completed_batch_id |-> f.last_completed_batch_id,
     last_completed_row |-> f.last_completed_row,
     total_rows_processed |-> f.total_rows_processed,
     step_states |-> f.step_states]

\* data.get(key, default) on a JSON object
JsonGet(data, key, default) == IF key \in DOMAIN data THEN data[key] ELSE default

\* faulty variant of Frontier.load: step_states is not read back
FrontierLoad_DropsStepStates(d) ==
    IF d = NoRecord THEN FreshFrontier
    ELSE [last_completed_batch_id |-> JsonGet(d, "last_completed_batch_id", -1),
          last_completed_row |-> JsonGet(d, "last_completed_row", -1),
          total_rows_processed |-> JsonGet(d, "total_rows_processed", 0),
          step_states |-> EmptyMap]

\* Frontier.load: a fresh Frontier when the file is absent, else the fields read back
FrontierLoad(d) ==
    IF d = NoRecord THEN FreshFrontier
    ELSE [last_completed_batch_id |-> JsonGet(d, "last_completed_batch_id", -1),
          last_completed_row |-> JsonGet(d, "last_completed_row", -1),
          total_rows_processed |-> JsonGet(d, "total_rows_processed", 0),
          step_states |-> JsonGet(d, "step_states", EmptyMap)]

(***************************************************************************)
(* The batch source and the steps (main_batch.py, *_batch_step.py).        *)
(***************************************************************************)
\* row i (0-based) of the dataset: one column "value", null or i + 1
SourceRow(i) == IF i \in nulls THEN <<Null>> ELSE <<i + 1>>

\* faulty variant of the batch source: `if start > len(data)`, so a source whose
\* length is a multiple of the batch size yields one more, empty, batch
FetchBatch_PastEnd(b, size) ==
    LET start_row == b * size
        end_row == start_row + size
    IN  IF start_row > nrows THEN NoBatch
        ELSE [batch_id |-> b,
              start_row |-> start_row,
              end_row |-> end_row - 1,
              data |-> [k \in 1..(Min2(end_row, nrows) - start_row) |->
                           SourceRow(start_row + k - 1)]]

\* create_batch_fetcher.batch_fetcher: None past the end, else data[start:end]
FetchBatch(b, size) ==
    LET start_row == b * size
        end_row == start_row + size
    IN  IF start_row >= nrows THEN NoBatch
        ELSE [batch_id |-> b,
              start_row |-> start_row,
              end_row |-> end_row - 1,
              data |-> [k \in 1..(Min2(end_row, nrows) - start_row) |->
                           SourceRow(start_row + k - 1)]]

HasNull(row) == \E c \in 1..Len(row) : row[c] = Null
NotNullRow(row) == ~HasNull(row)

\* DropNullsBatchStep.process
DropNullsProcess(batch) ==
    LET cleaned_data == SelectSeq(batch.data, NotNullRow)
    IN  [batch_id |-> batch.batch_id,
         start_row |-> batch.start_row,
         end_row |-> batch.start_row + Len(cleaned_data) - 1,
         data |-> cleaned_data]

\* AddColumnBatchStep.process: a new column, source column times the multiplier
AddColumnProcess(batch) ==
    [batch_id |-> batch.batch_id,
     start_row |-> batch.start_row,
     end_row |-> batch.end_row,
     data |-> [k \in 1..Len(batch.data) |->
                  Append(batch.data[k],
                         IF batch.data[k][1] = Null THEN Null
                         ELSE batch.data[k][1] * Multiplier)]]

\* step.process of the step named n
Process(n, batch) ==
    IF n = "drop_nulls" THEN DropNullsProcess(batch) ELSE AddColumnProcess(batch)

\* the batch after the first k configured steps
RECURSIVE ApplySteps(_, _)
ApplySteps(k, batch) ==
    IF k = 0 THEN batch ELSE Process(Steps[k], ApplySteps(k - 1, batch))

\* number of batches the source holds
NumBatches == (nrows + BatchSize - 1) \div BatchSize

(***************************************************************************)
(* BatchPipeline (batch/batch_pipeline.py).                                *)
(***************************************************************************)
Running == pc \in {"fetch", "step", "checkpoint", "advance", "save"}

\* the datasets the source may hold
Datasets ==
    {d \in [n : 0..MaxRows, z : SUBSET (0..(MaxRows - 1))] :
        /\ d.z \subseteq 0..(d.n - 1)
        /\ Cardinality(d.z) <= MaxNulls}

\* no second runner: the fields of an object that was never constructed
SecondIdle ==
    /\ frontier2 = FreshFrontier
    /\ pc2 = "idle"
    /\ batch_id2 = 0
    /\ si2 = 0
    /\ current2 = NoBatch

\* no call on the checkpoint pipeline yet
NoCall == [kind |-> "none"]
NotDone == [ok |-> FALSE]

\* CheckpointPipeline(steps=[]) on an empty directory
CheckpointIdle ==
    /\ cp_steps = <<>>
    /\ cp_files = EmptyMap
    /\ cp_result = NoCall
    /\ cp_executed = <<>>
    /\ cp_done = NotDone

\* PathPipeline(): no step, no connection
GraphEmpty ==
    /\ g_steps = <<>>
    /\ g_graph = EmptyMap
    /\ connections = <<>>
    /\ g_result = "none"
    /\ g_start = NoStart
    /\ g_errors = <<>>
    /\ g_unprocessed = <<>>
    /\ g_order = <<>>
    /\ invoked = <<>>
    /\ step_outputs = EmptyMap

\* an empty checkpoint directory, a BatchPipeline just constructed on it
BatchInit ==
    /\ GraphEmpty
    /\ CheckpointIdle
    /\ SecondIdle
    /\ \E d \in Datasets : nrows = d.n /\ nulls = d.z
    /\ disk = NoRecord
    /\ checkpoints = EmptyMap
    /\ frontier = FrontierLoad(NoRecord)
    /\ pc = "idle"
    /\ resume = TRUE
    /\ batch_id = 0
    /\ si = 0
    /\ current = NoBatch
    /\ error = "none"
    /\ fetch_log = <<>>
    /\ run_N = -1
    /\ start_ckpt = EmptyMap
    /\ start_disk = NoRecord
    /\ start_frontier = FreshFrontier
    /\ prior = "none"
    /\ last_passed = -1

\* faulty variant of Construct: the new object does not load the durable record
Construct_NoLoad ==
    /\ UNCHANGED <<gvars, cvars, rvars>>
    /\ ~Running
    /\ frontier' = FreshFrontier
    /\ pc' = "idle"
    /\ resume' = TRUE
    /\ batch_id' = 0
    /\ si' = 0
    /\ current' = NoBatch
    /\ error' = "none"
    /\ fetch_log' = <<>>
    /\ run_N' = -1
    /\ start_ckpt' = EmptyMap
    /\ start_disk' = NoRecord
    /\ start_frontier' = FreshFrontier
    /\ prior' = "none"
    /\ UNCHANGED <<nrows, nulls, disk, checkpoints, last_passed>>

\* BatchPipeline.__init__ on the existing directory, after a run returned or raised:
\* the process is restarted and the new object loads the durable frontier record
Construct ==
    /\ UNCHANGED <<gvars, cvars, rvars>>
    /\ ~Running
    /\ frontier' = FrontierLoad(disk)
    /\ pc' = "idle"
    /\ resume' = TRUE
    /\ batch_id' = 0
    /\ si' = 0
    /\ current' = NoBatch
    /\ error' = "none"
    /\ fetch_log' = <<>>
    /\ run_N' = -1
    /\ start_ckpt' = EmptyMap
    /\ start_disk' = NoRecord
    /\ start_frontier' = FreshFrontier
    /\ prior' = "none"
    /\ UNCHANGED <<nrows, nulls, disk, checkpoints, last_passed>>

\* faulty variant of StartRun: the resume test inverted (`if resume:`)
StartRun_InvertedResume(r) ==
    /\ UNCHANGED <<gvars, cvars, rvars>>
    /\ ~Running
    /\ resume' = r
    /\ frontier' = IF ~r THEN frontier ELSE FreshFrontier
    /\ checkpoints' = IF ~r THEN checkpoints ELSE EmptyMap
    /\ batch_id' = frontier'.last_completed_batch_id + 1
    /\ pc' = "fetch"
    /\ si' = 0
    /\ current' = NoBatch
    /\ error' = "none"
    /\ fetch_log' = <<>>
    /\ run_N' = frontier.last_completed_batch_id
    /\ start_ckpt' = checkpoints
    /\ start_disk' = disk
    /\ start_frontier' = frontier
    /\ prior' = IF pc = "done" THEN "clean"
                ELSE IF pc = "failed" THEN error ELSE "none"
    /\ last_passed' = IF r THEN last_passed ELSE -1
    /\ UNCHANGED <<nrows, nulls, disk>>

\* faulty variant of StartRun: the loop starts at the last completed batch, not the one after
StartRun_OffByOne(r) ==
    /\ UNCHANGED <<gvars, cvars, rvars>>
    /\ ~Running
    /\ resume' = r
    /\ frontier' = IF r THEN frontier ELSE FreshFrontier
    /\ checkpoints' = IF r THEN checkpoints ELSE EmptyMap
    /\ batch_id' = IF frontier'.last_completed_batch_id >= 0
                   THEN frontier'.last_completed_batch_id ELSE 0
    /\ pc' = "fetch"
    /\ si' = 0
    /\ current' = NoBatch
    /\ error' = "none"
    /\ fetch_log' = <<>>
    /\ run_N' = frontier.last_completed_batch_id
    /\ start_ckpt' = checkpoints
    /\ start_disk' = disk
    /\ start_frontier' = frontier
    /\ prior' = IF pc = "done" THEN "clean"
                ELSE IF pc = "failed" THEN error ELSE "none"
    /\ last_passed' = IF r THEN last_passed ELSE -1
    /\ UNCHANGED <<nrows, nulls, disk>>

\* run(resume), up to the first pass of the loop: with resume false the frontier
\* object is replaced and the batch_*.parquet files are unlinked (frontier.json is not)
StartRun(r) ==
    /\ UNCHANGED <<gvars, cvars, rvars>>
    /\ ~Running
    /\ resume' = r
    /\ frontier' = IF r THEN frontier ELSE FreshFrontier
    /\ checkpoints' = IF r THEN checkpoints ELSE EmptyMap
    /\ batch_id' = frontier'.last_completed_batch_id + 1
    /\ pc' = "fetch"
    /\ si' = 0
    /\ current' = NoBatch
    /\ error' = "none"
    /\ fetch_log' = <<>>
    /\ run_N' = frontier.last_completed_batch_id
    /\ start_ckpt' = checkpoints
    /\ start_disk' = disk
    /\ start_frontier' = frontier
    /\ prior' = IF pc = "done" THEN "clean"
                ELSE IF pc = "failed" THEN error ELSE "none"
    /\ last_passed' = IF r THEN last_passed ELSE -1
    /\ UNCHANGED <<nrows, nulls, disk>>

\* the run raises: the error reaches the caller
Abort(cause) ==
    /\ pc' = "failed"
    /\ error' = cause

\* batch = self.batch_fetcher(batch_id, self.batch_size) returns a batch
FetchOk ==
    /\ UNCHANGED <<gvars, cvars, rvars>>
    /\ pc = "fetch"
    /\ FetchBatch(batch_id, BatchSize) # NoBatch
    /\ current' = FetchBatch(batch_id, BatchSize)
    /\ fetch_log' = Append(fetch_log, batch_id)
    /\ si' = 0
    /\ pc' = IF Len(Steps) = 0 THEN "checkpoint" ELSE "step"
    /\ UNCHANGED <<nrows, nulls, disk, checkpoints, frontier, resume, batch_id,
                   error, run_N, start_ckpt, start_disk, start_frontier, prior,
                   last_passed>>

\* the batch source returns None: the loop breaks and run returns
FetchNone ==
    /\ UNCHANGED <<gvars, cvars, rvars>>
    /\ pc = "fetch"
    /\ FetchBatch(batch_id, BatchSize) = NoBatch
    /\ fetch_log' = Append(fetch_log, batch_id)
    /\ pc' = "done"
    /\ UNCHANGED <<nrows, nulls, disk, checkpoints, frontier, resume, batch_id,
                   si, current, error, run_N, start_ckpt, start_disk,
                   start_frontier, prior, last_passed>>

\* the batch source raises (outside the try block): run propagates the error
FetchFail ==
    /\ UNCHANGED <<gvars, cvars, rvars>>
    /\ pc = "fetch"
    /\ fetch_log' = Append(fetch_log, batch_id)
    /\ Abort("fetch")
    /\ UNCHANGED <<nrows, nulls, disk, checkpoints, frontier, resume, batch_id,
                   si, current, run_N, start_ckpt, start_disk, start_frontier,
                   prior, last_passed>>

\* faulty variant of StepOk: the frontier is advanced as soon as a step returns
StepOk_AdvanceEarly ==
    /\ UNCHANGED <<gvars, cvars, rvars>>
    /\ pc = "step"
    /\ current' = Process(Steps[si + 1], current)
    /\ frontier' = advance_frontier(update_step(frontier, Steps[si + 1], batch_id),
                                    batch_id, current'.end_row)
    /\ si' = si + 1
    /\ pc' = IF si + 1 = Len(Steps) THEN "checkpoint" ELSE "step"
    /\ last_passed' = IF si + 1 = Len(Steps) THEN batch_id ELSE last_passed
    /\ UNCHANGED <<nrows, nulls, disk, checkpoints, resume, batch_id, error,
                   fetch_log, run_N, start_ckpt, start_disk, start_frontier, prior>>

\* faulty variant of StepOk: the frontier is saved after every update_step
StepOk_SavesEachStep ==
    /\ UNCHANGED <<gvars, cvars, rvars>>
    /\ pc = "step"
    /\ current' = Process(Steps[si + 1], current)
    /\ frontier' = update_step(frontier, Steps[si + 1], batch_id)
    /\ disk' = FrontierToJson(frontier')
    /\ si' = si + 1
    /\ pc' = IF si + 1 = Len(Steps) THEN "checkpoint" ELSE "step"
    /\ last_passed' = IF si + 1 = Len(Steps) THEN batch_id ELSE last_passed
    /\ UNCHANGED <<nrows, nulls, checkpoints, resume, batch_id, error,
                   fetch_log, run_N, start_ckpt, start_disk, start_frontier, prior>>

\* one pass of `for step in self.steps`: process, then frontier.update_step
StepOk ==
    /\ UNCHANGED <<gvars, cvars, rvars>>
    /\ pc = "step"
    /\ current' = Process(Steps[si + 1], current)
    /\ frontier' = update_step(frontier, Steps[si + 1], batch_id)
    /\ si' = si + 1
    /\ pc' = IF si + 1 = Len(Steps) THEN "checkpoint" ELSE "step"
    /\ last_passed' = IF si + 1 = Len(Steps) THEN batch_id ELSE last_passed
    /\ UNCHANGED <<nrows, nulls, disk, checkpoints, resume, batch_id, error,
                   fetch_log, run_N, start_ckpt, start_disk, start_frontier, prior>>

\* faulty variant of StepFail: the except block advances and saves the frontier before re-raising
StepFail_Advances ==
    /\ UNCHANGED <<gvars, cvars, rvars>>
    /\ pc = "step"
    /\ Abort("transform")
    /\ frontier' = advance_frontier(frontier, batch_id, current.end_row)
    /\ disk' = FrontierToJson(frontier')
    /\ UNCHANGED <<nrows, nulls, checkpoints, resume, batch_id,
                   si, current, fetch_log, run_N, start_ckpt, start_disk,
                   start_frontier, prior, last_passed>>

\* faulty variant of StepFail: update_step is called before step.process, so the
\* transform that raises has its entry set
StepFail_UpdatesStep ==
    /\ UNCHANGED <<gvars, cvars, rvars>>
    /\ pc = "step"
    /\ Abort("transform")
    /\ frontier' = update_step(frontier, Steps[si + 1], batch_id)
    /\ UNCHANGED <<nrows, nulls, disk, checkpoints, resume, batch_id,
                   si, current, fetch_log, run_N, start_ckpt, start_disk,
                   start_frontier, prior, last_passed>>

\* step.process raises: the except block re-raises
StepFail ==
    /\ UNCHANGED <<gvars, cvars, rvars>>
    /\ pc = "step"
    /\ Abort("transform")
    /\ UNCHANGED <<nrows, nulls, disk, checkpoints, frontier, resume, batch_id,
                   si, current, fetch_log, run_N, start_ckpt, start_disk,
                   start_frontier, prior, last_passed>>

\* faulty variant of CheckpointOk: the run goes on to the advance without the
\* checkpoint of the batch written
CheckpointOk_NoWrite ==
    /\ UNCHANGED <<gvars, cvars, rvars>>
    /\ pc = "checkpoint"
    /\ pc' = "advance"
    /\ UNCHANGED <<nrows, nulls, disk, checkpoints, frontier, resume, batch_id, si,
                   current, error, fetch_log, run_N, start_ckpt, start_disk,
                   start_frontier, prior, last_passed>>

\* self._save_batch_checkpoint(current_batch)
CheckpointOk ==
    /\ UNCHANGED <<gvars, cvars, rvars>>
    /\ pc = "checkpoint"
    /\ checkpoints' = [b \in (DOMAIN checkpoints) \cup {current.batch_id} |->
                          IF b = current.batch_id THEN current.data
                          ELSE checkpoints[b]]
    /\ pc' = "advance"
    /\ UNCHANGED <<nrows, nulls, disk, frontier, resume, batch_id, si, current,
                   error, fetch_log, run_N, start_ckpt, start_disk,
                   start_frontier, prior, last_passed>>

\* write_parquet raises
CheckpointFail ==
    /\ UNCHANGED <<gvars, cvars, rvars>>
    /\ pc = "checkpoint"
    /\ Abort("checkpoint")
    /\ UNCHANGED <<nrows, nulls, disk, checkpoints, frontier, resume, batch_id,
                   si, current, fetch_log, run_N, start_ckpt, start_disk,
                   start_frontier, prior, last_passed>>

\* self.frontier.advance_frontier(batch_id, current_batch.end_row)
Advance ==
    /\ UNCHANGED <<gvars, cvars, rvars>>
    /\ pc = "advance"
    /\ frontier' = advance_frontier(frontier, batch_id, current.end_row)
    /\ pc' = "save"
    /\ UNCHANGED <<nrows, nulls, disk, checkpoints, resume, batch_id, si,
                   current, error, fetch_log, run_N, start_ckpt, start_disk,
                   start_frontier, prior, last_passed>>

\* self.frontier.save(...) succeeds; batch_id += 1
SaveOk ==
    /\ UNCHANGED <<gvars, cvars, rvars>>
    /\ pc = "save"
    /\ disk' = FrontierToJson(frontier)
    /\ batch_id' = batch_id + 1
    /\ pc' = "fetch"
    /\ UNCHANGED <<nrows, nulls, checkpoints, frontier, resume, si, current,
                   error, fetch_log, run_N, start_ckpt, start_disk,
                   start_frontier, prior, last_passed>>

\* Frontier.save raises before the record is replaced
SaveFail ==
    /\ UNCHANGED <<gvars, cvars, rvars>>
    /\ pc = "save"
    /\ Abort("save")
    /\ UNCHANGED <<nrows, nulls, disk, checkpoints, frontier, resume, batch_id,
                   si, current, fetch_log, run_N, start_ckpt, start_disk,
                   start_frontier, prior, last_passed>>

\* reset_frontier
ResetFrontier ==
    /\ UNCHANGED <<gvars, cvars, rvars>>
    /\ ~Running
    /\ frontier' = FreshFrontier
    /\ disk' = NoRecord
    /\ checkpoints' = EmptyMap
    /\ last_passed' = -1
    /\ pc' = "idle"
    /\ error' = "none"
    /\ UNCHANGED <<nrows, nulls, resume, batch_id, si, current,
                   fetch_log, run_N, start_ckpt, start_disk, start_frontier, prior>>

\* the decimal digits of n, as str(batch_id) writes them
RECURSIVE Digits(_)
Digits(n) == IF n < 10 THEN <<n>> ELSE Append(Digits(n \div 10), n % 10)

\* "batch_<a>.parquet" < "batch_<b>.parquet" as strings: digit by digit, and where
\* one number ends first its "." sorts before any digit of the other
PathLess(a, b) ==
    LET da == Digits(a)
        db == Digits(b)
    IN  \E k \in 1..(Len(da) + 1) :
            /\ \A j \in 1..(k - 1) : j <= Len(db) /\ da[j] = db[j]
            /\ \/ k = Len(da) + 1 /\ Len(db) > Len(da)
               \/ k <= Len(da) /\ k <= Len(db) /\ da[k] < db[k]

\* sorted(self.checkpoint_dir.glob("batch_*.parquet")): the ids in path order
RECURSIVE SortedIds(_)
SortedIds(S) ==
    IF S = {} THEN <<>>
    ELSE LET m == CHOOSE x \in S : \A y \in S \ {x} : PathLess(x, y)
         IN  <<m>> \o SortedIds(S \ {m})

RECURSIVE ConcatData(_, _)
ConcatData(ids, ck) ==
    IF ids = <<>> THEN <<>> ELSE ck[Head(ids)] \o ConcatData(Tail(ids), ck)

\* collect_results: the checkpoint files read back and concatenated in path order
CollectResults(ck) == ConcatData(SortedIds(DOMAIN ck), ck)

BatchNext ==
    \/ Construct
    \/ \E r \in BOOLEAN : StartRun(r)
    \/ FetchOk
    \/ FetchNone
    \/ FetchFail
    \/ StepOk
    \/ StepFail
    \/ CheckpointOk
    \/ CheckpointFail
    \/ Advance
    \/ SaveOk
    \/ SaveFail
    \/ ResetFrontier

SpecBatch == BatchInit /\ [][BatchNext]_vars

(***************************************************************************)
(* The graph engine (prototypes/solution4_graph).                          *)
(***************************************************************************)
\* the steps a caller may register: a ValidateFilesStep, a ProcessFilesStep and a
\* MergeStep(["input", "extra"])
StepIds == {"X", "Y", "Z"}
\* the step object registered under each id: X, Y, Z as above; A a ValidateFilesStep,
\* B and C ProcessFilesSteps, D a MergeStep(["input", "extra"]); S a PathStep that
\* declares no input channel
KindOf(id) ==
    IF id \in {"X", "A"} THEN "validate"
    ELSE IF id \in {"Y", "B", "C"} THEN "process"
    ELSE IF id \in {"Z", "D"} THEN "merge"
    ELSE "source"

\* PathStep.get_input_channels / get_output_channels of the step registered as id
get_input_channels(id) ==
    IF KindOf(id) = "merge" THEN <<"input", "extra">>
    ELSE IF KindOf(id) = "source" THEN <<>>
    ELSE <<"input">>
get_output_channels(id) ==
    IF KindOf(id) = "validate" THEN <<"valid", "invalid">> ELSE <<"output">>

\* the channel names a caller may pass to connect
FromChannelNames == {"valid", "invalid", "output"}
ToChannelNames == {"input", "extra"}

\* the initial items of a run, by name, and those ValidateFilesStep finds valid
InitialItems == {"f1", "f2"}
ValidItems == {"f1"}
\* the initial_items a caller may pass: one invalid item among them, or none
ItemSets == {InitialItems, ValidItems}
SeqSet(q) == {q[i] : i \in 1..Len(q)}
Count(q, x) == Cardinality({i \in 1..Len(q) : q[i] = x})
MapPut(m, k, v) == [x \in (DOMAIN m) \cup {k} |-> IF x = k THEN v ELSE m[x]]
Registered == SeqSet(g_steps)

\* the run-scoped results are those of the last run call only
NoRunResult ==
    /\ g_start' = NoStart
    /\ g_errors' = <<>>
    /\ g_unprocessed' = <<>>
    /\ g_order' = <<>>
    /\ invoked' = <<>>
    /\ step_outputs' = EmptyMap

\* faulty variant of add_step: an id already registered is registered again, its
\* adjacency list emptied
add_step_Overwrites(step_id) ==
    /\ IF step_id \in Registered
       THEN /\ g_steps' = g_steps
            /\ g_graph' = [g_graph EXCEPT ![step_id] = <<>>]
            /\ g_result' = "ok"
       ELSE /\ g_steps' = Append(g_steps, step_id)
            /\ g_graph' = [n \in (DOMAIN g_graph) \cup {step_id} |->
                              IF n = step_id THEN <<>> ELSE g_graph[n]]
            /\ g_result' = "ok"
    /\ UNCHANGED connections
    /\ NoRunResult
    /\ UNCHANGED <<bvars, cvars, rvars>>

\* PathPipeline.add_step
add_step(step_id) ==
    /\ IF step_id \in Registered
       THEN /\ g_result' = "DuplicateStepError"
            /\ UNCHANGED <<g_steps, g_graph>>
       ELSE /\ g_steps' = Append(g_steps, step_id)
            /\ g_graph' = [n \in (DOMAIN g_graph) \cup {step_id} |->
                              IF n = step_id THEN <<>> ELSE g_graph[n]]
            /\ g_result' = "ok"
    /\ UNCHANGED connections
    /\ NoRunResult
    /\ UNCHANGED <<bvars, cvars, rvars>>

\* faulty variant of connect: a connection already in the log is not added again
connect_DedupsLog(from_step, to_step, from_channel, to_channel) ==
    /\ IF from_step \notin Registered \/ to_step \notin Registered
       THEN /\ g_result' = "UnknownStepError"
            /\ UNCHANGED <<g_graph, connections>>
       ELSE IF \/ from_channel \notin SeqSet(get_output_channels(from_step))
               \/ to_channel \notin SeqSet(get_input_channels(to_step))
       THEN /\ g_result' = "InvalidChannelError"
            /\ UNCHANGED <<g_graph, connections>>
       ELSE IF \E i \in 1..Len(connections) :
                  connections[i] = [from_step |-> from_step, to_step |-> to_step,
                                    from_channel |-> from_channel,
                                    to_channel |-> to_channel]
       THEN /\ g_result' = "ok"
            /\ UNCHANGED <<g_graph, connections>>
       ELSE /\ g_graph' = [g_graph EXCEPT ![from_step] = Append(@, to_step)]
            /\ connections' = Append(connections,
                                     [from_step |-> from_step, to_step |-> to_step,
                                      from_channel |-> from_channel,
                                      to_channel |-> to_channel])
            /\ g_result' = "ok"
    /\ UNCHANGED g_steps
    /\ NoRunResult
    /\ UNCHANGED <<bvars, cvars, rvars>>

\* faulty variant of connect: the edge is appended before the channels are validated
connect_EdgeBeforeChannelCheck(from_step, to_step, from_channel, to_channel) ==
    /\ IF from_step \notin Registered \/ to_step \notin Registered
       THEN /\ g_result' = "UnknownStepError"
            /\ UNCHANGED <<g_graph, connections>>
       ELSE IF \/ from_channel \notin SeqSet(get_output_channels(from_step))
               \/ to_channel \notin SeqSet(get_input_channels(to_step))
       THEN /\ g_result' = "InvalidChannelError"
            /\ g_graph' = [g_graph EXCEPT ![from_step] = Append(@, to_step)]
            /\ UNCHANGED connections
       ELSE /\ g_graph' = [g_graph EXCEPT ![from_step] = Append(@, to_step)]
            /\ connections' = Append(connections,
                                     [from_step |-> from_step, to_step |-> to_step,
                                      from_channel |-> from_channel,
                                      to_channel |-> to_channel])
            /\ g_result' = "ok"
    /\ UNCHANGED g_steps
    /\ NoRunResult
    /\ UNCHANGED <<bvars, cvars, rvars>>

\* PathPipeline.connect
connect(from_step, to_step, from_channel, to_channel) ==
    /\ IF from_step \notin Registered \/ to_step \notin Registered
       THEN /\ g_result' = "UnknownStepError"
            /\ UNCHANGED <<g_graph, connections>>
       ELSE IF \/ from_channel \notin SeqSet(get_output_channels(from_step))
               \/ to_channel \notin SeqSet(get_input_channels(to_step))
       THEN /\ g_result' = "InvalidChannelError"
            /\ UNCHANGED <<g_graph, connections>>
       ELSE /\ g_graph' = [g_graph EXCEPT ![from_step] = Append(@, to_step)]
            /\ connections' = Append(connections,
                                     [from_step |-> from_step, to_step |-> to_step,
                                      from_channel |-> from_channel,
                                      to_channel |-> to_channel])
            /\ g_result' = "ok"
    /\ UNCHANGED g_steps
    /\ NoRunResult
    /\ UNCHANGED <<bvars, cvars, rvars>>

\* _topological_sort: in_degree[neighbor] += 1 over every adjacency list
RECURSIVE SumCount(_, _)
SumCount(k, n) ==
    IF k = 0 THEN 0 ELSE Count(g_graph[g_steps[k]], n) + SumCount(k - 1, n)

\* faulty variant of InDegree: an edge from a step to itself is not counted
InDegree_SkipsSelfEdges ==
    [n \in Registered |->
        Cardinality({p \in (1..Len(g_steps)) \X (1..MaxConns + 1) :
                        /\ g_steps[p[1]] # n
                        /\ p[2] <= Len(g_graph[g_steps[p[1]]])
                        /\ g_graph[g_steps[p[1]]][p[2]] = n})]

InDegree == [n \in Registered |-> SumCount(Len(g_steps), n)]

ZeroInDegree(id) == InDegree[id] = 0

\* faulty variant of InitialQueue: the queue is seeded with every step, whatever its in-degree
InitialQueue_AllSteps == g_steps

\* _topological_sort: the queue of the steps with in-degree 0, in the order of self.steps
InitialQueue == SelectSeq(g_steps, ZeroInDegree)

RECURSIVE Release(_, _, _)
RECURSIVE Release_NoZeroTest(_, _, _)

\* faulty variant of Release: a neighbour is queued at every decrement
Release_NoZeroTest(nbrs, deg, queue) ==
    IF nbrs = <<>> THEN [deg |-> deg, queue |-> queue]
    ELSE LET n == Head(nbrs)
             d == [deg EXCEPT ![n] = @ - 1]
         IN  Release_NoZeroTest(Tail(nbrs), d, Append(queue, n))

\* _topological_sort: `for neighbor in self.graph[current]`
Release(nbrs, deg, queue) ==
    IF nbrs = <<>> THEN [deg |-> deg, queue |-> queue]
    ELSE LET n == Head(nbrs)
             d == [deg EXCEPT ![n] = @ - 1]
         IN  Release(Tail(nbrs), d, IF d[n] = 0 THEN Append(queue, n) ELSE queue)

RECURSIVE Kahn_Lifo(_, _, _)
\* faulty variant of Kahn: queue.pop() in place of queue.popleft()
Kahn_Lifo(queue, deg, result) ==
    IF queue = <<>> THEN result
    ELSE LET node == queue[Len(queue)]
             r == Release(g_graph[node], deg, SubSeq(queue, 1, Len(queue) - 1))
         IN  Kahn_Lifo(r.queue, r.deg, Append(result, node))

\* _topological_sort: `while queue`
RECURSIVE Kahn(_, _, _)
Kahn(queue, deg, result) ==
    IF queue = <<>> THEN result
    ELSE LET node == Head(queue)
             r == Release(g_graph[node], deg, Tail(queue))
         IN  Kahn(r.queue, r.deg, Append(result, node))

KahnResult == Kahn(InitialQueue, InDegree, <<>>)

\* _topological_sort raises when the result does not hold every step
SortRaises == Len(KahnResult) # Len(g_steps)
NotInKahnResult(id) == id \notin SeqSet(KahnResult)
\* faulty variant of Unprocessed: the error names every registered step
Unprocessed_AllSteps == g_steps

Unprocessed == SelectSeq(g_steps, NotInKahnResult)

\* _has_cycle: dfs(node), on the state [visited, rec_stack, found]
RECURSIVE Dfs(_, _)
RECURSIVE DfsNeighbors(_, _)
RECURSIVE DfsNeighbors_VisitedOnly(_, _)

\* faulty variant of DfsNeighbors: a visited neighbour is never looked up in rec_stack
DfsNeighbors_VisitedOnly(nbrs, st) ==
    IF nbrs = <<>> THEN st
    ELSE LET n == Head(nbrs)
         IN  IF n \notin st.visited
             THEN LET r == Dfs(n, st)
                  IN  IF r.found THEN r ELSE DfsNeighbors_VisitedOnly(Tail(nbrs), r)
             ELSE DfsNeighbors_VisitedOnly(Tail(nbrs), st)

\* _has_cycle: `for neighbor in self.graph[node]`
DfsNeighbors(nbrs, st) ==
    IF nbrs = <<>> THEN st
    ELSE LET n == Head(nbrs)
         IN  IF n \notin st.visited
             THEN LET r == Dfs(n, st)
                  IN  IF r.found THEN r ELSE DfsNeighbors(Tail(nbrs), r)
             ELSE IF n \in st.rec_stack
             THEN [st EXCEPT !.found = TRUE]
             ELSE DfsNeighbors(Tail(nbrs), st)

Dfs(node, st) ==
    LET entered == [visited |-> st.visited \cup {node},
                    rec_stack |-> st.rec_stack \cup {node},
                    found |-> FALSE]
        left == DfsNeighbors(g_graph[node], entered)
    IN  IF left.found THEN left
        ELSE [left EXCEPT !.rec_stack = @ \ {node}]

\* faulty variant of has_cycle: the depth-first check finds nothing
has_cycle_Never == FALSE

\* _has_cycle: `for step_id in self.steps`
RECURSIVE HasCycleFrom(_, _)
HasCycleFrom(k, st) ==
    IF k > Len(g_steps) THEN FALSE
    ELSE IF g_steps[k] \notin st.visited
    THEN LET r == Dfs(g_steps[k], st)
         IN  IF r.found THEN TRUE ELSE HasCycleFrom(k + 1, r)
    ELSE HasCycleFrom(k + 1, st)

has_cycle == HasCycleFrom(1, [visited |-> {}, rec_stack |-> {}, found |-> FALSE])

RECURSIVE GatherInputs(_, _, _, _)
RECURSIVE GatherInputs_FirstOnly(_, _, _, _)
RECURSIVE GatherInputs_FirstWins(_, _, _, _)

\* faulty variant of GatherInputs: the scan stops at the first connection that delivers
GatherInputs_FirstOnly(k, step_id, outs, inputs) ==
    IF k > Len(connections) \/ DOMAIN inputs # {} THEN inputs
    ELSE LET conn == connections[k]
         IN  IF /\ conn.to_step = step_id
                /\ conn.from_step \in DOMAIN outs
                /\ conn.from_channel \in DOMAIN outs[conn.from_step]
             THEN GatherInputs_FirstOnly(k + 1, step_id, outs,
                               MapPut(inputs, conn.to_channel,
                                      outs[conn.from_step][conn.from_channel]))
             ELSE GatherInputs_FirstOnly(k + 1, step_id, outs, inputs)

\* faulty variant of GatherInputs: a channel already bound is not bound again
GatherInputs_FirstWins(k, step_id, outs, inputs) ==
    IF k > Len(connections) THEN inputs
    ELSE LET conn == connections[k]
         IN  IF /\ conn.to_step = step_id
                /\ conn.from_step \in DOMAIN outs
                /\ conn.from_channel \in DOMAIN outs[conn.from_step]
                /\ conn.to_channel \notin DOMAIN inputs
             THEN GatherInputs_FirstWins(k + 1, step_id, outs,
                               MapPut(inputs, conn.to_channel,
                                      outs[conn.from_step][conn.from_channel]))
             ELSE GatherInputs_FirstWins(k + 1, step_id, outs, inputs)

\* _get_step_inputs: the connections into step_id, in log order, a later one
\* overwriting an earlier one on the same input channel
GatherInputs(k, step_id, outs, inputs) ==
    IF k > Len(connections) THEN inputs
    ELSE LET conn == connections[k]
         IN  IF /\ conn.to_step = step_id
                /\ conn.from_step \in DOMAIN outs
                /\ conn.from_channel \in DOMAIN outs[conn.from_step]
             THEN GatherInputs(k + 1, step_id, outs,
                               MapPut(inputs, conn.to_channel,
                                      outs[conn.from_step][conn.from_channel]))
             ELSE GatherInputs(k + 1, step_id, outs, inputs)

get_step_inputs(step_id, outs) == GatherInputs(1, step_id, outs, EmptyMap)

\* step.process of the step registered as id (example_steps.py); items by name
process(id, inputs) ==
    IF KindOf(id) = "validate"
    THEN [c \in {"valid", "invalid"} |->
             IF c = "valid" THEN inputs["input"] \cap ValidItems
             ELSE inputs["input"] \ ValidItems]
    ELSE IF KindOf(id) = "process"
    THEN [c \in {"output"} |-> inputs["input"]]
    ELSE IF KindOf(id) = "source"
    THEN [c \in {"output"} |-> {}]
    ELSE [c \in {"output"} |-> UNION {inputs[ch] : ch \in DOMAIN inputs}]

\* faulty variant of EntryIsAmbiguous: several input channels are accepted
EntryIsAmbiguous_OnlyWhenNone(input_channels) == Len(input_channels) = 0

\* run: the first step does not declare exactly one input channel
EntryIsAmbiguous(input_channels) == Len(input_channels) # 1

RECURSIVE Execute(_, _, _, _, _, _)
RECURSIVE Execute_RecordsSkipped(_, _, _, _, _, _)

\* faulty variant of Execute: a step with no inputs is given an empty entry in
\* step_outputs instead of being passed over
Execute_RecordsSkipped(order, k, outs, inv, initial_items, start_step) ==
    IF k > Len(order)
    THEN [result |-> "returned", invoked |-> inv, outputs |-> outs]
    ELSE LET step_id == order[k]
             first == step_id = order[1] /\ start_step = NoStart
             input_channels == get_input_channels(step_id)
         IN  IF first /\ EntryIsAmbiguous(input_channels)
             THEN [result |-> "AmbiguousEntryError", invoked |-> inv,
                   outputs |-> EmptyMap]
             ELSE LET inputs == IF first
                                THEN MapPut(EmptyMap, input_channels[1], initial_items)
                                ELSE get_step_inputs(step_id, outs)
                  IN  IF DOMAIN inputs = {}
                      THEN Execute_RecordsSkipped(order, k + 1,
                                   MapPut(outs, step_id, EmptyMap), inv,
                                   initial_items, start_step)
                      ELSE Execute_RecordsSkipped(order, k + 1,
                                   MapPut(outs, step_id, process(step_id, inputs)),
                                   Append(inv, [step |-> step_id, inputs |-> inputs]),
                                   initial_items, start_step)

RECURSIVE Execute_FeedsEveryRoot(_, _, _, _, _, _)
\* faulty variant of Execute: every step without incoming connection is given
\* the initial items, not only the first step of the order
Execute_FeedsEveryRoot(order, k, outs, inv, initial_items, start_step) ==
    IF k > Len(order)
    THEN [result |-> "returned", invoked |-> inv, outputs |-> outs]
    ELSE LET step_id == order[k]
             first == /\ \A i \in 1..Len(connections) : connections[i].to_step # step_id
                      /\ start_step = NoStart
             input_channels == get_input_channels(step_id)
         IN  IF first /\ EntryIsAmbiguous(input_channels)
             THEN [result |-> "AmbiguousEntryError", invoked |-> inv,
                   outputs |-> EmptyMap]
             ELSE LET inputs == IF first
                                THEN MapPut(EmptyMap, input_channels[1], initial_items)
                                ELSE get_step_inputs(step_id, outs)
                  IN  IF DOMAIN inputs = {}
                      THEN Execute_FeedsEveryRoot(order, k + 1, outs, inv,
                                                  initial_items, start_step)
                      ELSE Execute_FeedsEveryRoot(order, k + 1,
                                   MapPut(outs, step_id, process(step_id, inputs)),
                                   Append(inv, [step |-> step_id, inputs |-> inputs]),
                                   initial_items, start_step)

\* run: `for step_id in execution_order`
Execute(order, k, outs, inv, initial_items, start_step) ==
    IF k > Len(order)
    THEN [result |-> "returned", invoked |-> inv, outputs |-> outs]
    ELSE LET step_id == order[k]
             first == step_id = order[1] /\ start_step = NoStart
             input_channels == get_input_channels(step_id)
         IN  IF first /\ EntryIsAmbiguous(input_channels)
             THEN [result |-> "AmbiguousEntryError", invoked |-> inv,
                   outputs |-> EmptyMap]
             ELSE LET inputs == IF first
                                THEN MapPut(EmptyMap, input_channels[1], initial_items)
                                ELSE get_step_inputs(step_id, outs)
                  IN  IF DOMAIN inputs = {}
                      THEN Execute(order, k + 1, outs, inv, initial_items, start_step)
                      ELSE Execute(order, k + 1,
                                   MapPut(outs, step_id, process(step_id, inputs)),
                                   Append(inv, [step |-> step_id, inputs |-> inputs]),
                                   initial_items, start_step)

\* faulty variant of run: step_outputs is not created anew, the outputs of the
\* previous run are still in it when the steps execute
run_KeepsOutputs(initial_items, start_step) ==
    /\ IF has_cycle
       THEN /\ g_result' = "CycleError"
            /\ g_unprocessed' = <<>>
            /\ g_order' = <<>>
            /\ invoked' = <<>>
            /\ step_outputs' = EmptyMap
       ELSE IF SortRaises
       THEN /\ g_result' = "CycleErrorInSort"
            /\ g_unprocessed' = Unprocessed
            /\ g_order' = <<>>
            /\ invoked' = <<>>
            /\ step_outputs' = EmptyMap
       ELSE LET r == Execute(KahnResult, 1, step_outputs, <<>>, initial_items, start_step)
            IN  /\ g_result' = r.result
                /\ g_unprocessed' = <<>>
                /\ g_order' = KahnResult
                /\ invoked' = r.invoked
                /\ step_outputs' = r.outputs
    /\ g_start' = start_step
    /\ g_errors' = <<>>
    /\ UNCHANGED <<g_steps, g_graph, connections>>
    /\ UNCHANGED <<bvars, cvars, rvars>>

\* PathPipeline.run
run(initial_items, start_step) ==
    /\ IF has_cycle
       THEN /\ g_result' = "CycleError"
            /\ g_unprocessed' = <<>>
            /\ g_order' = <<>>
            /\ invoked' = <<>>
            /\ step_outputs' = EmptyMap
       ELSE IF SortRaises
       THEN /\ g_result' = "CycleErrorInSort"
            /\ g_unprocessed' = Unprocessed
            /\ g_order' = <<>>
            /\ invoked' = <<>>
            /\ step_outputs' = EmptyMap
       ELSE LET r == Execute(KahnResult, 1, EmptyMap, <<>>, initial_items, start_step)
            IN  /\ g_result' = r.result
                /\ g_unprocessed' = <<>>
                /\ g_order' = KahnResult
                /\ invoked' = r.invoked
                /\ step_outputs' = r.outputs
    /\ g_start' = start_step
    /\ g_errors' = <<>>
    /\ UNCHANGED <<g_steps, g_graph, connections>>
    /\ UNCHANGED <<bvars, cvars, rvars>>

\* validate: the messages, each with the steps and the channel it names
Msg(m, st, ch) == [msg |-> m, steps |-> st, channel |-> ch]

HasIncoming(id) == \E i \in 1..Len(connections) : connections[i].to_step = id
IsStartingStep(id) == ~HasIncoming(id)
\* validate: starting_steps
StartingSteps == SelectSeq(g_steps, IsStartingStep)

InputConnected(id, ch) ==
    \E i \in 1..Len(connections) :
        connections[i].to_step = id /\ connections[i].to_channel = ch
OutputConnected(id, ch) ==
    \E i \in 1..Len(connections) :
        connections[i].from_step = id /\ connections[i].from_channel = ch

\* validate: "Check that all input channels are connected"
RECURSIVE InputChannelErrors(_, _)
InputChannelErrors(id, chans) ==
    IF chans = <<>> THEN <<>>
    ELSE (IF InputConnected(id, Head(chans)) THEN <<>>
          ELSE <<Msg("Input channel is not connected", <<id>>, Head(chans))>>)
         \o InputChannelErrors(id, Tail(chans))

RECURSIVE InputErrors(_)
InputErrors(k) ==
    IF k > Len(g_steps) THEN <<>>
    ELSE (IF IsStartingStep(g_steps[k]) THEN <<>>
          ELSE InputChannelErrors(g_steps[k], get_input_channels(g_steps[k])))
         \o InputErrors(k + 1)

\* validate: "Check for unused output channels"
RECURSIVE OutputChannelWarnings(_, _, _)
OutputChannelWarnings(id, chans, execution_order) ==
    IF chans = <<>> THEN <<>>
    ELSE (IF \/ OutputConnected(id, Head(chans))
             \/ (execution_order # <<>> /\ id = execution_order[Len(execution_order)])
          THEN <<>>
          ELSE <<Msg("Warning: Output channel is not connected", <<id>>, Head(chans))>>)
         \o OutputChannelWarnings(id, Tail(chans), execution_order)

RECURSIVE OutputWarnings(_, _)
OutputWarnings(k, execution_order) ==
    IF k > Len(g_steps) THEN <<>>
    ELSE OutputChannelWarnings(g_steps[k], get_output_channels(g_steps[k]),
                               execution_order)
         \o OutputWarnings(k + 1, execution_order)

\* validate: the list it returns when _topological_sort does not raise
ValidateErrors ==
    LET execution_order == IF ~has_cycle THEN KahnResult ELSE <<>>
    IN  (IF has_cycle THEN <<Msg("Pipeline contains a cycle", <<>>, "")>> ELSE <<>>)
        \o (IF Len(StartingSteps) = 0 /\ Len(g_steps) > 0
            THEN <<Msg("No starting steps found", <<>>, "")>>
            ELSE IF Len(StartingSteps) > 1
            THEN <<Msg("Multiple starting steps found", StartingSteps, "")>>
            ELSE <<>>)
        \o InputErrors(1)
        \o OutputWarnings(1, execution_order)

\* PathPipeline.validate
validate ==
    /\ IF ~has_cycle /\ SortRaises
       THEN /\ g_result' = "CycleErrorInSort"
            /\ g_unprocessed' = Unprocessed
            /\ g_errors' = <<>>
       ELSE /\ g_result' = "validated"
            /\ g_unprocessed' = <<>>
            /\ g_errors' = ValidateErrors
    /\ g_start' = NoStart
    /\ g_order' = <<>>
    /\ invoked' = <<>>
    /\ step_outputs' = EmptyMap
    /\ UNCHANGED <<g_steps, g_graph, connections>>
    /\ UNCHANGED <<bvars, cvars, rvars>>

\* the batch runner beside the graph engine: never constructed
BatchIdle ==
    /\ SecondIdle
    /\ nrows = 0
    /\ nulls = {}
    /\ disk = NoRecord
    /\ checkpoints = EmptyMap
    /\ frontier = FreshFrontier
    /\ pc = "idle"
    /\ resume = TRUE
    /\ batch_id = 0
    /\ si = 0
    /\ current = NoBatch
    /\ error = "none"
    /\ fetch_log = <<>>
    /\ run_N = -1
    /\ start_ckpt = EmptyMap
    /\ start_disk = NoRecord
    /\ start_frontier = FreshFrontier
    /\ prior = "none"
    /\ last_passed = -1

GraphInit == GraphEmpty /\ BatchIdle /\ CheckpointIdle

\* the values a caller may pass as start_step: None or a step id (run reads the
\* argument only in its `start_step is None` test)
StartSteps == {NoStart, "X"}

\* the connect calls between declared channels; a call with an undeclared channel
\* changes nothing a run reads, and is left to SpecBuild
DeclaredConnections ==
    {c \in [from_step : StepIds, to_step : StepIds,
            from_channel : FromChannelNames, to_channel : ToChannelNames] :
        /\ c.from_channel \in SeqSet(get_output_channels(c.from_step))
        /\ c.to_channel \in SeqSet(get_input_channels(c.to_step))}

GraphNext ==
    \/ \E id \in StepIds : add_step(id)
    \/ \E c \in DeclaredConnections :
          /\ connect(c.from_step, c.to_step, c.from_channel, c.to_channel)
          /\ Len(connections') <= MaxConns
    \/ \E items \in ItemSets, s \in StartSteps : run(items, s)

SpecGraph == GraphInit /\ [][GraphNext]_vars

\* the calls that build the graph, alone
BuildNext ==
    \/ \E id \in StepIds : add_step(id)
    \/ \E f \in StepIds, t \in StepIds, fc \in FromChannelNames, tc \in ToChannelNames :
          connect(f, t, fc, tc) /\ Len(connections') <= MaxConns

SpecBuild == GraphInit /\ [][BuildNext]_vars

(***************************************************************************)
(* Two graphs built call by call, in any order of the calls: the ring      *)
(* X -> Y -> Z -> X with a step S that declares no input channel feeding   *)
(* X, and the diamond A -> B, A -> C, {B, C} -> D.                         *)
(***************************************************************************)
Conn(f, t, fc, tc) ==
    [from_step |-> f, to_step |-> t, from_channel |-> fc, to_channel |-> tc]

InLog(c) == \E i \in 1..Len(connections) : connections[i] = c

RingSteps == {"S", "X", "Y", "Z"}
RingConnections ==
    {Conn("S", "X", "output", "input"), Conn("X", "Y", "valid", "input"),
     Conn("Y", "Z", "output", "input"), Conn("Z", "X", "output", "input")}

RingNext ==
    \/ \E id \in RingSteps : add_step(id)
    \/ \E c \in RingConnections :
          ~InLog(c) /\ connect(c.from_step, c.to_step, c.from_channel, c.to_channel)
    \/ run(InitialItems, NoStart)
    \/ validate

SpecRing == GraphInit /\ [][RingNext]_vars

DiamondSteps == {"A", "B", "C", "D"}
DiamondConnections ==
    {Conn("A", "B", "valid", "input"), Conn("A", "C", "invalid", "input"),
     Conn("B", "D", "output", "input"), Conn("C", "D", "output", "extra")}

DiamondNext ==
    \/ \E id \in DiamondSteps : add_step(id)
    \/ \E c \in DiamondConnections :
          ~InLog(c) /\ connect(c.from_step, c.to_step, c.from_channel, c.to_channel)
    \/ run(InitialItems, NoStart)

SpecDiamond == GraphInit /\ [][DiamondNext]_vars

(***************************************************************************)
(* What an uninterrupted run leaves behind.                                *)
(***************************************************************************)
\* the checkpoints of one uninterrupted run(resume=False) over the whole source
UninterruptedCheckpoints ==
    [b \in 0..(NumBatches - 1) |->
        ApplySteps(Len(Steps), FetchBatch(b, BatchSize)).data]

\* the run that is active or ended last was called with resume=True by this runner
ResumeRun == resume /\ pc # "idle"

\* the last run raised out of the batch source or out of a transform
AbortedInFetchOrTransform == pc = "failed" /\ error \in {"fetch", "transform"}

(***************************************************************************)
(* Claims about the batch runner, checked under SpecBatch.                 *)
(***************************************************************************)

\* C1: the frontier is advanced to batch b only after every configured transform
\* returned on b in the current attempt: a change of last_completed_batch_id in the
\* middle of a run happens with all steps returned on the batch in hand and sets it
\* to that batch, and in no state is last_completed_batch_id = b >= 0 while some
\* configured transform's recorded completion is below b.
C1_AdvanceStep ==
    (/\ frontier'.last_completed_batch_id # frontier.last_completed_batch_id
     /\ Running /\ Running')
    => /\ si = Len(Steps)
       /\ frontier'.last_completed_batch_id = batch_id
       /\ current = ApplySteps(Len(Steps), FetchBatch(batch_id, BatchSize))
       /\ all_steps_completed(frontier, batch_id, StepNames)

C1_AllCompleted ==
    frontier.last_completed_batch_id >= 0
    => all_steps_completed(frontier, frontier.last_completed_batch_id, StepNames)

\* C1: the frontier never names a batch some configured transform has not completed,
\* and every advance in a run follows all transforms returning on the batch in hand.
C1_AdvanceOnlyAfterAllTransforms ==
    []C1_AllCompleted /\ [][C1_AdvanceStep]_vars

\* C1 witness: the frontier was just advanced to batch 1 in an attempt that follows
\* one that failed in a transform
C1_Witness ==
    /\ pc = "save"
    /\ frontier.last_completed_batch_id = batch_id
    /\ batch_id >= 1
    /\ prior = "transform"

C3_Fetches ==
    ResumeRun =>
        /\ fetch_log # <<>> => fetch_log[1] = run_N + 1
        /\ \A i \in 1..Len(fetch_log) : fetch_log[i] > run_N
        /\ batch_id > run_N
        /\ current # NoBatch => current.batch_id > run_N
        /\ \A b \in 0..run_N :
              b \in DOMAIN start_ckpt =>
                  b \in DOMAIN checkpoints /\ checkpoints[b] = start_ckpt[b]

C3_NoRewrite ==
    (resume /\ resume' /\ Running /\ checkpoints' # checkpoints)
    => /\ current.batch_id > run_N
       /\ \A b \in DOMAIN checkpoints :
              b # current.batch_id =>
                  b \in DOMAIN checkpoints' /\ checkpoints'[b] = checkpoints[b]

C4_ResumeEqualsUninterrupted ==
    (ResumeRun /\ pc = "done" /\ prior \in {"fetch", "transform"})
    => CollectResults(checkpoints) = CollectResults(UninterruptedCheckpoints)

\* C5: whenever no run is active, every batch id in 0..L has a persisted checkpoint,
\* L being the durable frontier record's last_completed_batch_id.
C5_DurableFrontierHasCheckpoints ==
    (~Running /\ disk # NoRecord)
    => \A b \in 0..disk.last_completed_batch_id : b \in DOMAIN checkpoints

\* C6: run(resume=False) reaches its first fetch with the frontier fresh, the durable
\* record gone, no checkpoint left and batch id 0.
C6_FreshRunDiscardsEverything ==
    (~resume /\ pc = "fetch" /\ fetch_log = <<>>)
    => /\ frontier = FreshFrontier
       /\ batch_id = 0
       /\ checkpoints = EmptyMap
       /\ disk = NoRecord

\* C7: during and after a run(resume=True) that follows a cleanly completed run of
\* the same runner, the frontier, the durable record and the checkpoints are those
\* of the moment the run was called, and no batch is ever in hand.
C7_ResumeAfterCleanChangesNothing ==
    (ResumeRun /\ prior = "clean")
    => /\ frontier = start_frontier
       /\ disk = start_disk
       /\ checkpoints = start_ckpt
       /\ pc \in {"fetch", "done", "failed"}
       /\ pc = "failed" => error = "fetch"

\* C7 witness: the resumed run after a clean run that committed two batches or more
\* has returned
C7_Witness ==
    /\ ResumeRun
    /\ prior = "clean"
    /\ pc = "done"
    /\ frontier.last_completed_batch_id >= 1
    /\ DOMAIN checkpoints = 0..frontier.last_completed_batch_id

\* C8 as stated: a run(resume=True) after a cleanly completed run calls the batch
\* source zero times
C8_ZeroSourceCalls ==
    (ResumeRun /\ prior = "clean") => Len(fetch_log) = 0

\* C8 amended: a run(resume=True) after a cleanly completed run calls the batch
\* source exactly once, for batch id last_completed_batch_id + 1, gets no batch and
\* returns; no batch is fetched.
C8_OneSourceCallNoBatch ==
    (ResumeRun /\ prior = "clean")
    => /\ pc = "fetch" => fetch_log = <<>>
       /\ pc \in {"done", "failed"} =>
              fetch_log = <<start_frontier.last_completed_batch_id + 1>>
       /\ current = NoBatch
       /\ FetchBatch(start_frontier.last_completed_batch_id + 1, BatchSize) = NoBatch

\* C8 witness: the resumed run after a clean run has made its one call and returned
C8_Witness ==
    /\ ResumeRun
    /\ prior = "clean"
    /\ pc = "done"
    /\ Len(fetch_log) = 1
    /\ start_frontier.last_completed_batch_id >= 0

(***************************************************************************)
(* Claims about the graph engine, checked under SpecGraph.                 *)
(***************************************************************************)
\* the adjacency relation: the direct dependents of n
Succ(n) == SeqSet(g_graph[n])

RECURSIVE ReachN(_, _)
ReachN(S, k) ==
    IF k = 0 THEN S ELSE ReachN(S \cup UNION {Succ(m) : m \in S}, k - 1)

\* the adjacency relation has a directed cycle
Cyclic == \E n \in Registered : n \in ReachN(Succ(n), Len(g_steps))

Pos(order, x) == CHOOSE i \in 1..Len(order) : order[i] = x

\* order holds every registered step exactly once and respects every connection
IsTopologicalOrder(order) ==
    /\ Len(order) = Len(g_steps)
    /\ \A id \in Registered : Count(order, id) = 1
    /\ \A i \in 1..Len(connections) :
          Pos(order, connections[i].from_step) < Pos(order, connections[i].to_step)

\* the last call was run
RanRun ==
    g_result \in {"returned", "CycleError", "CycleErrorInSort", "AmbiguousEntryError"}

\* C9: on every acyclic graph that add_step and connect can build, _topological_sort
\* does not raise and its result is a topological order; a run on such a graph
\* computes that order and raises no cycle error.
C9_OrderIsTopological ==
    /\ ~Cyclic => (~SortRaises /\ IsTopologicalOrder(KahnResult))
    /\ (RanRun /\ ~Cyclic) =>
          /\ g_result \in {"returned", "AmbiguousEntryError"}
          /\ g_order = KahnResult
          /\ IsTopologicalOrder(g_order)

\* C9 witness: a run returned on three steps with two connections between the same
\* pair of steps, both ends invoked
C9_Witness ==
    /\ g_result = "returned"
    /\ Len(g_steps) = 3
    /\ Len(connections) = 2
    /\ connections[1].from_step = connections[2].from_step
    /\ connections[1].to_step = connections[2].to_step
    /\ Len(invoked) = 2

\* C10: on every graph whose adjacency relation has a directed cycle, _has_cycle is
\* true and run raises the cycle error with no step invoked and no outputs returned.
C10_CyclicRunFailsFirst ==
    /\ Cyclic => has_cycle
    /\ (RanRun /\ Cyclic) =>
          /\ g_result = "CycleError"
          /\ invoked = <<>>
          /\ step_outputs = EmptyMap
          /\ g_order = <<>>

\* C10 witness: run raised the cycle error on a graph of two steps or more that
\* holds a self-connection
C10_Witness ==
    /\ g_result = "CycleError"
    /\ Len(g_steps) >= 2
    /\ \E i \in 1..Len(connections) :
          connections[i].from_step = connections[i].to_step

(***************************************************************************)
(* Claims about the routing of a run.                                      *)
(***************************************************************************)
InvokedSteps == {invoked[k].step : k \in 1..Len(invoked)}

\* the step invoked[k] got its inputs from the connections, not from initial_items
Routed(k) == invoked[k].step # g_order[1] \/ g_start # NoStart

\* connection i comes from a step that was invoked before position k of the
\* invocations and recorded an output under the connection's from_channel
DeliversBefore(i, k) ==
    /\ \E j \in 1..(k - 1) : invoked[j].step = connections[i].from_step
    /\ connections[i].from_step \in DOMAIN step_outputs
    /\ connections[i].from_channel \in DOMAIN step_outputs[connections[i].from_step]

\* the connections into the step invoked at position k that deliver
Delivering(k) ==
    {i \in 1..Len(connections) :
        connections[i].to_step = invoked[k].step /\ DeliversBefore(i, k)}

\* the output connection i carries
Carried(i) == step_outputs[connections[i].from_step][connections[i].from_channel]

\* C11: in a run that returned, the input map of every invoked step after the first
\* binds exactly the to_channels of the connections into it whose source recorded
\* the from_channel earlier in the run, each to that recorded output (to that of the
\* latest such connection in the log when several target one channel); a channel
\* with no such connection is absent; a step after the first with at least one
\* such connection is invoked.
C11_InputsAreRoutedOutputs ==
    g_result = "returned" =>
        /\ \A k \in 1..Len(invoked) :
              Routed(k) =>
                  /\ DOMAIN invoked[k].inputs =
                         {connections[i].to_channel : i \in Delivering(k)}
                  /\ \A i \in Delivering(k) :
                         (\A j \in Delivering(k) :
                              connections[j].to_channel = connections[i].to_channel
                              => j <= i)
                         => invoked[k].inputs[connections[i].to_channel] = Carried(i)
        /\ \A p \in 2..Len(g_order) :
              (\E i \in 1..Len(connections) :
                   /\ connections[i].to_step = g_order[p]
                   /\ connections[i].from_step \in DOMAIN step_outputs
                   /\ connections[i].from_channel
                          \in DOMAIN step_outputs[connections[i].from_step])
              => g_order[p] \in InvokedSteps

\* C11 witness: the merge step Z, not first, was invoked with only its channel
\* "extra" bound, to the empty output its source recorded
C11_Witness ==
    /\ g_result = "returned"
    /\ \E k \in 2..Len(invoked) :
          /\ invoked[k].step = "Z"
          /\ DOMAIN invoked[k].inputs = {"extra"}
          /\ invoked[k].inputs["extra"] = {}
          /\ step_outputs["X"]["invalid"] = {}

\* the connections into a step
Incoming(id) == {i \in 1..Len(connections) : connections[i].to_step = id}

\* the step at position p of the execution order is offered nothing: it is not the
\* entry step of the run and no connection into it comes from a step that recorded
\* an output under the connection's from_channel
NothingOffered(p) ==
    /\ ~(p = 1 /\ g_start = NoStart)
    /\ \A i \in Incoming(g_order[p]) :
          ~(/\ connections[i].from_step \in DOMAIN step_outputs
            /\ connections[i].from_channel
                   \in DOMAIN step_outputs[connections[i].from_step])

\* C12: in a run that returned, a step is not invoked exactly when its assembled
\* input map is empty; a step not invoked has no entry in the returned outputs; and
\* a step with incoming connections, all of them from steps that were skipped, is
\* skipped too.
C12_EmptyInputsSkip ==
    g_result = "returned" =>
        /\ \A p \in 1..Len(g_order) :
              /\ g_order[p] \notin InvokedSteps <=> NothingOffered(p)
              /\ g_order[p] \notin InvokedSteps => g_order[p] \notin DOMAIN step_outputs
              /\ (/\ Incoming(g_order[p]) # {}
                  /\ \A i \in Incoming(g_order[p]) :
                         connections[i].from_step \notin InvokedSteps)
                 => g_order[p] \notin InvokedSteps
        /\ \A k \in 1..Len(invoked) : DOMAIN invoked[k].inputs # {}

\* C12 witness: of three steps the first was invoked, a second without incoming
\* connection was skipped, and the third, fed only by the second, was skipped too
C12_Witness ==
    /\ g_result = "returned"
    /\ g_start = NoStart
    /\ Len(g_order) = 3
    /\ InvokedSteps = {g_order[1]}
    /\ DOMAIN step_outputs = {g_order[1]}
    /\ Incoming(g_order[2]) = {}
    /\ Incoming(g_order[3]) # {}
    /\ \A i \in Incoming(g_order[3]) : connections[i].from_step = g_order[2]

\* the delivering connections into the step invoked at position k that target ch
DeliveringTo(k, ch) == {i \in Delivering(k) : connections[i].to_channel = ch}

LastOf(S) == CHOOSE i \in S : \A j \in S : j <= i

\* C14: in a run that returned, every channel of the input map of a step fed through
\* connections holds the output carried by the connection added last to the log
\* among those that target the channel and whose source produced.
C14_LastWriteWins ==
    g_result = "returned" =>
        \A k \in 1..Len(invoked) :
            Routed(k) =>
                \A ch \in DOMAIN invoked[k].inputs :
                    /\ DeliveringTo(k, ch) # {}
                    /\ invoked[k].inputs[ch] = Carried(LastOf(DeliveringTo(k, ch)))

\* C14 witness: two connections carrying different outputs target one channel of an
\* invoked step, and the map holds the output of the later one
C14_Witness ==
    /\ g_result = "returned"
    /\ \E k \in 1..Len(invoked) :
          /\ Routed(k)
          /\ \E i, j \in Delivering(k) :
                /\ i < j
                /\ connections[i].to_channel = connections[j].to_channel
                /\ Carried(i) # Carried(j)
                /\ invoked[k].inputs[connections[j].to_channel] = Carried(j)

(***************************************************************************)
(* Claims about the entry step, checked on the ring with the step S.       *)
(***************************************************************************)
\* C13: a run with start_step=None on an acyclic graph with a step or more either
\* invokes the first step of the execution order first, with initial_items bound to
\* its single input channel, when it declares exactly one; or, when it declares
\* none or several, raises AmbiguousEntryError with no step invoked and nothing
\* returned.
C13_EntryStepGetsInitialItems ==
    (/\ g_result \in {"returned", "AmbiguousEntryError"}
     /\ g_start = NoStart
     /\ g_steps # <<>>)
    => LET entry == g_order[1]
           input_channels == get_input_channels(entry)
       IN  /\ g_order = KahnResult
           /\ Len(input_channels) = 1 =>
                  /\ g_result = "returned"
                  /\ invoked # <<>>
                  /\ invoked[1].step = entry
                  /\ DOMAIN invoked[1].inputs = {input_channels[1]}
                  /\ invoked[1].inputs[input_channels[1]] = InitialItems
                  /\ entry \in DOMAIN step_outputs
           /\ Len(input_channels) # 1 =>
                  /\ g_result = "AmbiguousEntryError"
                  /\ invoked = <<>>
                  /\ step_outputs = EmptyMap

\* C13 witness: run raised AmbiguousEntryError on a graph whose first step in order
\* is S, which declares no input channel and is connected to X
C13_Witness ==
    /\ g_result = "AmbiguousEntryError"
    /\ g_order[1] = "S"
    /\ get_input_channels("S") = <<>>
    /\ InLog(Conn("S", "X", "output", "input"))
    /\ invoked = <<>>

(***************************************************************************)
(* Claims about the diamond, checked under SpecDiamond.                    *)
(***************************************************************************)
\* the positions at which a step was invoked
InvokedAt(id) == {k \in 1..Len(invoked) : invoked[k].step = id}

\* the four steps are registered and the four connections are in the log
DiamondBuilt ==
    /\ Registered = DiamondSteps
    /\ \A c \in DiamondConnections : InLog(c)

\* C15: a run with initial items at A on the diamond invokes A first, then B and C,
\* then D exactly once, with D's channels bound to the outputs B and C recorded, and
\* D's output is the union of B's and C's outputs.
C15_DiamondMergesBothBranches ==
    (DiamondBuilt /\ RanRun) =>
        /\ g_result = "returned"
        /\ invoked[1] = [step |-> "A", inputs |-> [c \in {"input"} |-> InitialItems]]
        /\ \A id \in DiamondSteps : Cardinality(InvokedAt(id)) = 1
        /\ \A kb \in InvokedAt("B"), kc \in InvokedAt("C"), kd \in InvokedAt("D") :
              /\ kb < kd
              /\ kc < kd
              /\ invoked[kd].inputs =
                     [c \in {"input", "extra"} |->
                         IF c = "input" THEN step_outputs["B"]["output"]
                         ELSE step_outputs["C"]["output"]]
        /\ step_outputs["B"]["output"] = InitialItems \cap ValidItems
        /\ step_outputs["C"]["output"] = InitialItems \ ValidItems
        /\ step_outputs["D"]["output"] =
               step_outputs["B"]["output"] \cup step_outputs["C"]["output"]

\* C15 witness: the diamond was built with D registered first and C before B, the
\* run returned, and D's output holds an item of each branch
C15_Witness ==
    /\ DiamondBuilt
    /\ g_result = "returned"
    /\ g_steps[1] = "D"
    /\ g_order = <<"A", "C", "B", "D">>
    /\ step_outputs["D"]["output"] = {"f1", "f2"}
    /\ step_outputs["B"]["output"] = {"f1"}
    /\ step_outputs["C"]["output"] = {"f2"}

(***************************************************************************)
(* Claims about the ring X -> Y -> Z -> X, checked under SpecRing.         *)
(***************************************************************************)
\* X, Y and Z are registered and the three connections of the ring are in the log
RingBuilt ==
    /\ {"X", "Y", "Z"} \subseteq Registered
    /\ \A c \in RingConnections : c.from_step # "S" => InLog(c)

CycleMsg == Msg("Pipeline contains a cycle", <<>>, "")

DeclaredOutputs(id) == SeqSet(get_output_channels(id))
DeclaredInputs(id) == SeqSet(get_input_channels(id))

\* what the claim expects of a connect call with these arguments
ConnectOutcome(f, t, fc, tc) ==
    IF f \notin Registered \/ t \notin Registered
    THEN g_result' = "UnknownStepError"
    ELSE IF fc \notin DeclaredOutputs(f) \/ tc \notin DeclaredInputs(t)
    THEN g_result' = "InvalidChannelError"
    ELSE /\ g_result' = "ok"
         /\ connections' = Append(connections, Conn(f, t, fc, tc))
         /\ DOMAIN g_graph' = DOMAIN g_graph
         /\ g_graph'[f] = Append(g_graph[f], t)
         /\ \A n \in DOMAIN g_graph : n # f => g_graph'[n] = g_graph[n]
         /\ g_steps' = g_steps

\* C17: in every state and for every argument tuple, a connect call can be made and
\* has one outcome only: it raises the unknown-step error when an id is not
\* registered, else the invalid-channel error when a channel is not declared, and
\* else appends exactly one edge from_id -> to_id and exactly one connection, also
\* when that connection is in the log already.
C17_ConnectValidatesThenAppends ==
    \A f \in StepIds, t \in StepIds, fc \in FromChannelNames, tc \in ToChannelNames :
        /\ ENABLED connect(f, t, fc, tc)
        /\ ~ENABLED (connect(f, t, fc, tc) /\ ~ConnectOutcome(f, t, fc, tc))

\* C17 witness: the same connection was accepted twice
C17_Witness ==
    /\ g_result = "ok"
    /\ Len(connections) = 2
    /\ connections[1] = connections[2]
    /\ Count(g_graph[connections[1].from_step], connections[1].to_step) = 2

C18_FailingConnectStep ==
    g_result' \in {"UnknownStepError", "InvalidChannelError"}
    => /\ g_steps' = g_steps
       /\ g_graph' = g_graph
       /\ connections' = connections

\* C18: a connect call that raises leaves the step set, the adjacency lists and the
\* connection log as they were.
C18_FailingConnectChangesNothing == [][C18_FailingConnectStep]_vars

\* C18 witness: a connect call raised the invalid-channel error on a graph that
\* holds a connection
C18_Witness ==
    /\ g_result = "InvalidChannelError"
    /\ Len(connections) >= 1
    /\ Len(g_steps) >= 2

\* the connections of the log from f to t
ConnsBetween(f, t) ==
    {i \in 1..Len(connections) :
        connections[i].from_step = f /\ connections[i].to_step = t}

\* C19: whatever calls were made, every logged connection joins two registered
\* steps on a declared output channel of the first and a declared input channel of
\* the second, every registered step and no other has an adjacency list, and the
\* lists hold exactly one edge from_step -> to_step per logged connection.
C19_LogAndAdjacencyAgree ==
    /\ \A i \in 1..Len(connections) :
          /\ connections[i].from_step \in Registered
          /\ connections[i].to_step \in Registered
          /\ connections[i].from_channel \in DeclaredOutputs(connections[i].from_step)
          /\ connections[i].to_channel \in DeclaredInputs(connections[i].to_step)
    /\ DOMAIN g_graph = Registered
    /\ \A f \in Registered :
          /\ SeqSet(g_graph[f]) \subseteq Registered
          /\ \A t \in Registered :
                Count(g_graph[f], t) = Cardinality(ConnsBetween(f, t))

\* C19 witness: a call failed on a graph that holds a connection twice and a step
\* with no connection
C19_Witness ==
    /\ g_result \in {"DuplicateStepError", "UnknownStepError", "InvalidChannelError"}
    /\ Len(connections) = 2
    /\ connections[1] = connections[2]
    /\ \E id \in Registered : g_graph[id] = <<>> /\ Incoming(id) = {}

\* what the claim expects of an add_step call with this id
AddStepOutcome(id) ==
    IF id \in Registered
    THEN /\ g_result' = "DuplicateStepError"
         /\ g_steps' = g_steps
         /\ g_graph' = g_graph
         /\ connections' = connections
    ELSE /\ g_result' = "ok"
         /\ g_steps' = Append(g_steps, id)
         /\ DOMAIN g_graph' = DOMAIN g_graph \cup {id}
         /\ g_graph'[id] = <<>>
         /\ \A n \in DOMAIN g_graph : g_graph'[n] = g_graph[n]
         /\ connections' = connections

\* C20: in every state and for every id, an add_step call can be made and has one
\* outcome only: it raises the duplicate-step error when the id is registered,
\* leaving the steps, the adjacency lists and the connection log as they were, and
\* else registers the step with an empty dependency list.
C20_AddStepRegistersOnce ==
    \A id \in StepIds :
        /\ ENABLED add_step(id)
        /\ ~ENABLED (add_step(id) /\ ~AddStepOutcome(id))

\* C20 witness: add_step raised the duplicate-step error on a graph in which some
\* step has a dependent
C20_Witness ==
    /\ g_result = "DuplicateStepError"
    /\ \E id \in Registered : g_graph[id] # <<>>
    /\ connections # <<>>

\* what a run returns on the registered graph when nothing of an earlier run is left
FreshRun(initial_items, start_step) ==
    IF has_cycle \/ SortRaises
    THEN [result |-> IF has_cycle THEN "CycleError" ELSE "CycleErrorInSort",
          invoked |-> <<>>, outputs |-> EmptyMap]
    ELSE Execute(KahnResult, 1, EmptyMap, <<>>, initial_items, start_step)

RunOutcome(initial_items, start_step) ==
    /\ g_steps' = g_steps
    /\ g_graph' = g_graph
    /\ connections' = connections
    /\ g_result' = FreshRun(initial_items, start_step).result
    /\ invoked' = FreshRun(initial_items, start_step).invoked
    /\ step_outputs' = FreshRun(initial_items, start_step).outputs

\* a step made by a run call that returned or raised
RunStep ==
    /\ gvars' # gvars
    /\ g_result' \in {"returned", "AmbiguousEntryError", "CycleError"}

\* a run step leaves the graph alone and returns what a first run returns
C21_RunStepLeavesGraphAlone ==
    RunStep => \E items \in ItemSets : RunOutcome(items, g_start')

\* C21: whatever earlier runs returned, a run call, whether it returns or raises,
\* leaves the steps, the adjacency lists and the connection log as they were before
\* the call, and what it invokes and returns is what a run with its arguments on
\* the same graph returns when no run was made before.
C21_RunLeavesGraphAlone == [][C21_RunStepLeavesGraphAlone]_vars

\* C21 witness: a run has returned outputs, and a second run on the same graph,
\* given a start step, returns none of them
C21_Witness ==
    /\ g_result = "returned"
    /\ step_outputs # EmptyMap
    /\ ENABLED (run(InitialItems, "X") /\ step_outputs' = EmptyMap /\ g_result' = "returned")

\* a run that began at batch 0 has fetched every batch of the source and returned
CompleteRun ==
    /\ pc = "done"
    /\ fetch_log = [k \in 1..(NumBatches + 1) |-> k - 1]

\* rows the checkpoints hold: what is left of all committed batches after the drop
PostDropCount == Len(CollectResults(checkpoints))

\* C22: after a complete uninterrupted run, total_rows_processed is the number of
\* rows left after the drop in all committed batches.
C22_TotalIsPostDropCount ==
    CompleteRun => frontier.total_rows_processed = PostDropCount

(***************************************************************************)
(* collect_results on directories of many checkpoints, checked under       *)
(* SpecCollect: runs that no error interrupts, over sources of up to       *)
(* MaxCollectRows rows without nulls.                                      *)
(***************************************************************************)
CollectInit ==
    /\ GraphEmpty
    /\ CheckpointIdle
    /\ SecondIdle
    /\ nrows \in 0..MaxCollectRows
    /\ nulls = {}
    /\ disk = NoRecord
    /\ checkpoints = EmptyMap
    /\ frontier = FrontierLoad(NoRecord)
    /\ pc = "idle"
    /\ resume = TRUE
    /\ batch_id = 0
    /\ si = 0
    /\ current = NoBatch
    /\ error = "none"
    /\ fetch_log = <<>>
    /\ run_N = -1
    /\ start_ckpt = EmptyMap
    /\ start_disk = NoRecord
    /\ start_frontier = FreshFrontier
    /\ prior = "none"
    /\ last_passed = -1

CollectNext ==
    \/ StartRun(TRUE) /\ pc = "idle"
    \/ FetchOk
    \/ FetchNone
    \/ StepOk
    \/ CheckpointOk
    \/ Advance
    \/ SaveOk

SpecCollect == CollectInit /\ [][CollectNext]_vars

\* the ids of S in ascending order
RECURSIVE Ascending(_)
Ascending(S) ==
    IF S = {} THEN <<>>
    ELSE LET m == CHOOSE x \in S : \A y \in S : x <= y
         IN  <<m>> \o Ascending(S \ {m})

\* C23: collect_results returns the persisted checkpoints concatenated in ascending
\* batch_id order, for any number of committed batches (ten or more included).
C23_CollectIsAscending ==
    CollectResults(checkpoints) =
        ConcatData(Ascending(DOMAIN checkpoints), checkpoints)

(***************************************************************************)
(* Claims about the Frontier and the order of a run's effects, checked     *)
(* under SpecBatch.                                                        *)
(***************************************************************************)
\* the run has just persisted the frontier: nothing touched the object since save
JustSaved == pc = "fetch" /\ fetch_log # <<>>

\* a runner was constructed on the directory (or reset) and has not run yet
JustLoaded == pc = "idle"

\* C24: a record written by save loads back as a Frontier equal to the one saved in
\* last_completed_batch_id, last_completed_row, total_rows_processed and
\* step_states, both when read right after the save and when a new runner loads
\* it; loading when there is no durable record gives the fresh Frontier
\* (-1, -1, 0, empty map).
C24_SaveLoadRoundTrip ==
    /\ JustSaved =>
          /\ disk # NoRecord
          /\ FrontierLoad(disk).last_completed_batch_id = frontier.last_completed_batch_id
          /\ FrontierLoad(disk).last_completed_row = frontier.last_completed_row
          /\ FrontierLoad(disk).total_rows_processed = frontier.total_rows_processed
          /\ FrontierLoad(disk).step_states = frontier.step_states
    /\ (JustLoaded /\ disk # NoRecord) =>
          /\ frontier.last_completed_batch_id = disk.last_completed_batch_id
          /\ frontier.last_completed_row = disk.last_completed_row
          /\ frontier.total_rows_processed = disk.total_rows_processed
          /\ frontier.step_states = disk.step_states
    /\ (JustLoaded /\ disk = NoRecord) =>
          /\ frontier.last_completed_batch_id = -1
          /\ frontier.last_completed_row = -1
          /\ frontier.total_rows_processed = 0
          /\ frontier.step_states = EmptyMap

\* C24 witness: a new runner has loaded the record of a run that committed two
\* batches, the entries of both steps in it
C24_Witness ==
    /\ JustLoaded
    /\ disk # NoRecord
    /\ frontier.last_completed_batch_id = 1
    /\ DOMAIN frontier.step_states = StepNames

\* what the advance of the batch in hand leaves in the frontier
AdvanceOutcome ==
    /\ frontier'.last_completed_batch_id = batch_id
    /\ frontier'.last_completed_row = current.end_row
    /\ frontier'.total_rows_processed = current.end_row + 1
    /\ frontier'.step_states = frontier.step_states

\* C25: advance_frontier(batch_id, end_row) sets last_completed_batch_id = batch_id,
\* last_completed_row = end_row and total_rows_processed = end_row + 1 and leaves
\* step_states as it was; last_completed_row = total_rows_processed - 1 holds of
\* the fresh Frontier and after every advance (of every frontier the runner holds).
C25_AdvanceSetsRowAndTotal ==
    /\ frontier.last_completed_row = frontier.total_rows_processed - 1
    /\ FreshFrontier.last_completed_row = FreshFrontier.total_rows_processed - 1
    /\ pc = "advance" =>
          /\ ENABLED Advance
          /\ ~ENABLED (Advance /\ ~AdvanceOutcome)

\* C25 witness: the frontier has just been advanced to the second batch, short of
\* rows after the drop, the entries of both steps in it
C25_Witness ==
    /\ pc = "save"
    /\ batch_id = 1
    /\ frontier.last_completed_batch_id = 1
    /\ frontier.last_completed_row = current.end_row
    /\ current.end_row < BatchSize + Len(FetchBatch(1, BatchSize).data) - 1
    /\ DOMAIN frontier.step_states = StepNames

(***************************************************************************)
(* CheckpointPipeline (checkpoint_pipeline.py) with the steps of           *)
(* drop_nulls_step.py and add_column_step.py, checked under SpecCheckpoint.*)
(* A DataFrame is a sequence of rows, a row the sequence of its cells.     *)
(***************************************************************************)
\* the DataFrames a caller may pass: one column "value", row i holding i, the
\* first row possibly a null
InitialDfs ==
    {[i \in 1..n |-> IF i = z THEN <<Null>> ELSE <<i>>] :
        n \in 0..MaxDfRows, z \in {0, 1}}

\* DropNullsStep(name)
DropNullsStep(name) == [name |-> name, kind |-> "drop", col |-> 0, multiplier |-> 0]
\* AddColumnStep(name, source_col, multiplier, new_col): the source column by position
AddColumnStep(name, col, multiplier) ==
    [name |-> name, kind |-> "add", col |-> col, multiplier |-> multiplier]

\* the step lists of the tests: none, the simple pipeline, the three-step pipeline
\* of test_partial_resume, the two steps of one name of test_step_name_uniqueness
StepLists ==
    {<<>>,
     <<DropNullsStep("drop_nulls"), AddColumnStep("add_feature1", 1, Multiplier)>>,
     <<DropNullsStep("drop_nulls"), AddColumnStep("add_feature1", 1, Multiplier),
       AddColumnStep("add_feature2", 2, 2)>>,
     <<DropNullsStep("duplicate_name"), AddColumnStep("duplicate_name", 1, 2)>>}

\* the names a caller may pass to clear_checkpoints and clear_from
CpNames == {"drop_nulls", "add_feature1", "add_feature2", "duplicate_name"}

\* step.process(df): drop_nulls, or with_columns of source column times multiplier
CpProcess(step, df) ==
    IF step.kind = "drop" THEN SelectSeq(df, NotNullRow)
    ELSE [k \in 1..Len(df) |->
             Append(df[k], IF df[k][step.col] = Null THEN Null
                           ELSE df[k][step.col] * step.multiplier)]

\* names of two steps of the list are equal
HasDuplicateNames(steps) ==
    \E i, j \in 1..Len(steps) : i # j /\ steps[i].name = steps[j].name

\* CheckpointPipeline.__init__: the steps are stored, the directory kept as found
CheckpointPipeline(steps) ==
    /\ cp_steps' = steps
    /\ cp_result' = [kind |-> "constructed"]
    /\ cp_executed' = <<>>
    /\ cp_done' = IF steps = cp_steps THEN cp_done ELSE NotDone
    /\ UNCHANGED cp_files
    /\ UNCHANGED <<bvars, gvars, rvars>>

\* the steps whose checkpoint file exists
HasCheckpoint(steps, files) == {i \in 1..Len(steps) : steps[i].name \in DOMAIN files}

\* faulty variant of the resume scan: it goes forward and stops at the first
\* checkpoint it finds
ResumeIdx_FirstFound(steps, files, resume_arg) ==
    IF resume_arg /\ HasCheckpoint(steps, files) # {}
    THEN CHOOSE i \in HasCheckpoint(steps, files) :
             \A j \in HasCheckpoint(steps, files) : j >= i
    ELSE 0

\* run: `for i in range(len(self.steps) - 1, -1, -1)`: the last step with a
\* checkpoint, 0 when there is none or resume is false
ResumeIdx(steps, files, resume_arg) ==
    IF resume_arg /\ HasCheckpoint(steps, files) # {}
    THEN CHOOSE i \in HasCheckpoint(steps, files) :
             \A j \in HasCheckpoint(steps, files) : j <= i
    ELSE 0

\* run: `for step in self.steps[start_idx:]`: process, then save the checkpoint;
\* fail_at is the step whose process raises (0: none does)
RECURSIVE RunSteps(_, _, _, _, _, _)
RunSteps(steps, k, df, files, executed, fail_at) ==
    IF k > Len(steps)
    THEN [kind |-> "returned", df |-> df, files |-> files, executed |-> executed]
    ELSE IF k = fail_at
    THEN [kind |-> "raised", df |-> <<>>, files |-> files,
          executed |-> Append(executed, k)]
    ELSE RunSteps(steps, k + 1, CpProcess(steps[k], df),
                  MapPut(files, steps[k].name, CpProcess(steps[k], df)),
                  Append(executed, k), fail_at)

\* CheckpointPipeline.run(initial_df, resume)
checkpoint_run(initial_df, resume_arg, fail_at) ==
    LET start_idx == ResumeIdx(cp_steps, cp_files, resume_arg)
        df == IF start_idx = 0 THEN initial_df ELSE cp_files[cp_steps[start_idx].name]
        r == RunSteps(cp_steps, start_idx + 1, df, cp_files, <<>>, fail_at)
    IN  /\ fail_at = 0 \/ fail_at > start_idx
        /\ cp_files' = r.files
        /\ cp_result' = [kind |-> r.kind, df |-> r.df]
        /\ cp_executed' = r.executed
        /\ cp_done' = IF r.kind = "raised" THEN NotDone
                      ELSE IF start_idx = 0
                      THEN [ok |-> TRUE, input |-> initial_df, result |-> r.df]
                      ELSE cp_done
        /\ UNCHANGED cp_steps
        /\ UNCHANGED <<bvars, gvars, rvars>>

\* the files left when those of the names in S are unlinked
Unlink(files, S) == [n \in (DOMAIN files) \ S |-> files[n]]

\* clear_checkpoints(step_name): the file of that name, or with None those of all steps
clear_checkpoints(step_name) ==
    /\ cp_files' = IF step_name # "None"
                   THEN Unlink(cp_files, {step_name})
                   ELSE Unlink(cp_files, {cp_steps[i].name : i \in 1..Len(cp_steps)})
    /\ cp_result' = [kind |-> "cleared"]
    /\ cp_executed' = <<>>
    /\ UNCHANGED <<cp_steps, cp_done>>
    /\ UNCHANGED <<bvars, gvars, rvars>>

\* clear_from(step_name): the files of the first step of that name and of all later steps
clear_from(step_name) ==
    /\ cp_files' = Unlink(cp_files,
                      {cp_steps[i].name : i \in
                          {i \in 1..Len(cp_steps) :
                              \E j \in 1..i : cp_steps[j].name = step_name}})
    /\ cp_result' = [kind |-> "cleared"]
    /\ cp_executed' = <<>>
    /\ UNCHANGED <<cp_steps, cp_done>>
    /\ UNCHANGED <<bvars, gvars, rvars>>

CheckpointInit ==
    /\ GraphEmpty
    /\ BatchIdle
    /\ cp_steps \in StepLists
    /\ cp_files = EmptyMap
    /\ cp_result = [kind |-> "constructed"]
    /\ cp_executed = <<>>
    /\ cp_done = NotDone

\* the calls of the tests: a pipeline is constructed on a directory that holds no
\* checkpoint, then run and cleared in any order
CheckpointNext ==
    \/ \E steps \in StepLists : cp_files = EmptyMap /\ CheckpointPipeline(steps)
    \/ \E df \in InitialDfs, r \in BOOLEAN, fail_at \in 0..Len(cp_steps) :
          checkpoint_run(df, r, fail_at)
    \/ \E n \in CpNames \cup {"None"} : clear_checkpoints(n)
    \/ \E n \in CpNames : clear_from(n)

SpecCheckpoint == CheckpointInit /\ [][CheckpointNext]_vars

\* the last step whose checkpoint still exists (0: none does)
LastKept ==
    IF \E i \in 1..Len(cp_steps) : cp_steps[i].name \in DOMAIN cp_files
    THEN CHOOSE i \in 1..Len(cp_steps) :
            /\ cp_steps[i].name \in DOMAIN cp_files
            /\ \A j \in (i + 1)..Len(cp_steps) : cp_steps[j].name \notin DOMAIN cp_files
    ELSE 0

\* what a run(resume=True) on the input of the last complete run must do: return
\* that run's result, having executed the steps after the last checkpoint only
ResumeOutcome ==
    /\ cp_result' = [kind |-> "returned", df |-> cp_done.result]
    /\ cp_executed' = [k \in 1..(Len(cp_steps) - LastKept) |-> LastKept + k]

\* C26: after a run that executed every step and returned, and after any clear_from
\* or clear_checkpoints calls and resumed runs that followed it, run(resume=True) on
\* the same input returns a result identical to that run's, executing only the
\* steps after the last step whose checkpoint still exists.
C26_ResumeEqualsCompletedRun ==
    cp_done.ok =>
        /\ ENABLED checkpoint_run(cp_done.input, TRUE, 0)
        /\ ~ENABLED (checkpoint_run(cp_done.input, TRUE, 0) /\ ~ResumeOutcome)

\* C26 witness: after a complete run of the three steps on rows with a null, the
\* last checkpoint was cleared and the resumed run executed the third step only
C26_Witness ==
    /\ cp_done.ok
    /\ Len(cp_steps) = 3
    /\ cp_executed = <<3>>
    /\ cp_result = [kind |-> "returned", df |-> cp_done.result]
    /\ Len(cp_done.result) < Len(cp_done.input)
    /\ cp_done.result # <<>>

\* C27: a CheckpointPipeline whose step list has two steps of one name is never
\* constructed: the constructor raises ValueError.
C27_DuplicateNamesRejected ==
    HasDuplicateNames(cp_steps) => cp_result.kind = "ValueError"

\* the step calls the batch source
FetchStep == Len(fetch_log') = Len(fetch_log) + 1

\* the batch in hand has its checkpoint on disk, as the steps left it
CheckpointWritten ==
    /\ batch_id \in DOMAIN checkpoints
    /\ checkpoints[batch_id] = current.data

\* one step of a run: fetches go up by one from the frontier, the advance follows
\* the checkpoint write, the persist follows the advance, the next fetch the persist
C28_RunStepInOrder ==
    /\ (FetchStep /\ fetch_log = <<>>) =>
          fetch_log'[1] = frontier.last_completed_batch_id + 1
    /\ (FetchStep /\ fetch_log # <<>>) =>
          /\ fetch_log'[Len(fetch_log')] = fetch_log[Len(fetch_log)] + 1
          /\ disk # NoRecord
          /\ disk.last_completed_batch_id = fetch_log[Len(fetch_log)]
          /\ frontier.last_completed_batch_id = fetch_log[Len(fetch_log)]
          /\ fetch_log[Len(fetch_log)] \in DOMAIN checkpoints
    /\ (Running /\ Running'
        /\ frontier'.last_completed_batch_id # frontier.last_completed_batch_id) =>
          /\ frontier'.last_completed_batch_id = batch_id
          /\ batch_id = fetch_log[Len(fetch_log)]
          /\ CheckpointWritten
          /\ disk' = disk
          /\ checkpoints' = checkpoints
    /\ (Running /\ disk' # disk) =>
          /\ disk'.last_completed_batch_id = batch_id
          /\ frontier.last_completed_batch_id = batch_id
          /\ frontier' = frontier
          /\ CheckpointWritten
    /\ (Running /\ checkpoints' # checkpoints) =>
          /\ frontier.last_completed_batch_id = batch_id - 1
          /\ frontier' = frontier
          /\ disk' = disk

\* C28: within one run the batch ids are fetched in consecutive increasing order
\* from last_completed_batch_id + 1; for each batch the checkpoint write comes
\* before the frontier advance and the advance before the persist, and the next
\* batch is fetched only once the record naming the batch is the durable one.
C28_FetchCheckpointAdvancePersist == [][C28_RunStepInOrder]_vars

\* C28 witness: a resumed run that began at batch 1 holds batch 2, fetched with
\* the record of batch 1 persisted
C28_Witness ==
    /\ pc = "step"
    /\ fetch_log = <<1, 2>>
    /\ disk # NoRecord
    /\ disk.last_completed_batch_id = 1
    /\ 1 \in DOMAIN checkpoints

\* every configured transform's entry is the frontier's batch or the one after it
EntriesWithinOne ==
    \A t \in StepNames :
        /\ frontier.last_completed_batch_id <= StepState(frontier, t)
        /\ StepState(frontier, t) <= frontier.last_completed_batch_id + 1

\* the batch in hand is the fetched batch put through the first si transforms
AppliedInOrder ==
    pc \in {"step", "checkpoint"} =>
        current = ApplySteps(si, FetchBatch(batch_id, BatchSize))

\* one step of a resumed run: an entry of step_states changes only when the
\* transform next in the configured order has returned on the batch in hand, and
\* it is set to that batch
C29_ResumeRunStep ==
    /\ ResumeRun' => (EntriesWithinOne' /\ AppliedInOrder')
    /\ \A t \in StepNames :
          (ResumeRun /\ resume' /\ Running
           /\ StepState(frontier', t) # StepState(frontier, t)) =>
              /\ pc = "step"
              /\ pc' \in {"step", "checkpoint"}
              /\ t = Steps[si + 1]
              /\ si' = si + 1
              /\ current' = Process(t, current)
              /\ StepState(frontier', t) = batch_id
              /\ \A u \in StepNames \ {t} :
                    StepState(frontier', u) = StepState(frontier, u)

\* C29: in runs with resume=true the transforms are applied to a batch in the
\* configured order, a transform's frontier entry is set to the current batch id
\* only when that transform has returned, and at every point every configured
\* transform t has last_completed_batch_id <= step_states[t] <=
\* last_completed_batch_id + 1, a missing entry counting as -1.
C29_EntriesFollowTransforms == [][C29_ResumeRunStep]_vars

\* C29 witness: in a resumed run the first transform has returned on a batch after
\* the first and the second has not: their entries differ by one
C29_Witness ==
    /\ ResumeRun
    /\ pc = "step"
    /\ si = 1
    /\ batch_id >= 1
    /\ StepState(frontier, Steps[1]) = frontier.last_completed_batch_id + 1
    /\ StepState(frontier, Steps[2]) = frontier.last_completed_batch_id

\* C30: every frontier record the runner has persisted has step_states[name] =
\* last_completed_batch_id for every configured transform name: the durable record
\* never shows a partly processed batch, and all_steps_completed of its
\* last_completed_batch_id and the configured names is true of it.
C30_DurableRecordIsWhole ==
    disk # NoRecord =>
        /\ \A name \in StepNames :
              /\ name \in DOMAIN disk.step_states
              /\ disk.step_states[name] = disk.last_completed_batch_id
        /\ all_steps_completed(FrontierLoad(disk), disk.last_completed_batch_id,
                               StepNames)

\* C30 witness: a run raised in the second transform of batch 2; the frontier in
\* memory has the first transform's entry at 2, the durable record is that of batch 1
C30_Witness ==
    /\ pc = "failed"
    /\ error = "transform"
    /\ si = 1
    /\ StepState(frontier, Steps[1]) = 2
    /\ disk # NoRecord
    /\ disk.last_completed_batch_id = 1
    /\ disk.step_states[Steps[1]] = 1

(***************************************************************************)
(* Termination of a run, checked under SpecTerminate: a source that        *)
(* returns batches and then None, steps and writes that never raise; the   *)
(* loop of run is one thread that goes on whenever its next statement can  *)
(* execute.                                                                *)
(***************************************************************************)
\* the statements of the loop of run, none of them raising
RunProgress ==
    \/ FetchOk
    \/ FetchNone
    \/ StepOk
    \/ CheckpointOk
    \/ Advance
    \/ SaveOk

TerminateNext ==
    \/ \E r \in BOOLEAN : StartRun(r)
    \/ RunProgress

SpecTerminate == BatchInit /\ [][TerminateNext]_vars /\ WF_vars(RunProgress)

\* run(resume=False) has been called and is at its first fetch
FreshRunCalled == pc = "fetch" /\ ~resume /\ fetch_log = <<>>

\* run(resume=False) has returned with every batch of the source fetched once in
\* increasing order (then None), checkpointed and committed
FreshRunComplete ==
    /\ pc = "done"
    /\ ~resume
    /\ fetch_log = [k \in 1..(NumBatches + 1) |-> k - 1]
    /\ frontier.last_completed_batch_id = NumBatches - 1
    /\ DOMAIN checkpoints = 0..(NumBatches - 1)
    /\ checkpoints = UninterruptedCheckpoints
    /\ NumBatches > 0 =>
          /\ disk # NoRecord
          /\ disk.last_completed_batch_id = NumBatches - 1

\* C31: with a source that returns None after finitely many batches and steps
\* that never raise, run(resume=False) eventually returns, having fetched,
\* checkpointed and committed every batch 0..n-1 once in increasing order, with
\* last_completed_batch_id = n-1 and checkpoints for exactly the ids 0..n-1.
C31_FreshRunTerminates == FreshRunCalled ~> FreshRunComplete

\* C31 witness: run(resume=False), called on a directory that held checkpoints,
\* has returned after three batches
C31_Witness ==
    /\ FreshRunComplete
    /\ NumBatches = 3
    /\ start_ckpt # EmptyMap

(***************************************************************************)
(* Resumed runs only, checked under SpecResume: one runner at a time calls *)
(* run(resume=True) any number of times; runs may raise anywhere and the   *)
(* process may be restarted on the directory.                              *)
(***************************************************************************)
ResumeNext ==
    \/ Construct
    \/ StartRun(TRUE)
    \/ FetchOk
    \/ FetchNone
    \/ FetchFail
    \/ StepOk
    \/ StepFail
    \/ CheckpointOk
    \/ CheckpointFail
    \/ Advance
    \/ SaveOk
    \/ SaveFail

SpecResume == BatchInit /\ [][ResumeNext]_vars

\* last_completed_batch_id of a durable record, -1 when there is none
DurableId(d) == IF d = NoRecord THEN -1 ELSE d.last_completed_batch_id

\* the step persists a frontier record
Commit == pc = "save" /\ pc' = "fetch"

\* C32 as stated: the durable last_completed_batch_id never decreases and each
\* commit increases it by exactly one
C32_CommitStepByOne ==
    /\ DurableId(disk') >= DurableId(disk)
    /\ Commit => DurableId(disk') = DurableId(disk) + 1

C32_CommitStep ==
    /\ DurableId(disk') >= DurableId(disk)
    /\ DurableId(disk) <= frontier.last_completed_batch_id
    /\ Commit =>
          /\ DurableId(disk') = batch_id
          /\ DurableId(disk') > DurableId(disk)
          /\ (Len(fetch_log) > 1
              \/ start_frontier.last_completed_batch_id = DurableId(start_disk))
             => DurableId(disk') = DurableId(disk) + 1
          /\ (Len(fetch_log) = 1
              /\ start_frontier.last_completed_batch_id > DurableId(start_disk))
             => /\ DurableId(disk') = start_frontier.last_completed_batch_id + 1
                /\ DurableId(disk') > DurableId(disk) + 1

Running2 == pc2 \in {"fetch", "step", "checkpoint", "advance", "save"}

\* BatchPipeline.__init__ of the second object: it loads the record on disk
Construct2 ==
    /\ UNCHANGED <<bvars, gvars, cvars>>
    /\ ~Running2
    /\ frontier2' = FrontierLoad(disk)
    /\ pc2' = "ready"
    /\ batch_id2' = 0
    /\ si2' = 0
    /\ current2' = NoBatch

\* run(resume=True) of the second object, up to the first pass of the loop
StartRun2 ==
    /\ UNCHANGED <<bvars, gvars, cvars>>
    /\ pc2 \in {"ready", "done"}
    /\ batch_id2' = frontier2.last_completed_batch_id + 1
    /\ pc2' = "fetch"
    /\ si2' = 0
    /\ current2' = NoBatch
    /\ UNCHANGED frontier2

\* the second object's fetch returns a batch
FetchOk2 ==
    /\ UNCHANGED <<bvars, gvars, cvars>>
    /\ pc2 = "fetch"
    /\ FetchBatch(batch_id2, BatchSize) # NoBatch
    /\ current2' = FetchBatch(batch_id2, BatchSize)
    /\ si2' = 0
    /\ pc2' = IF Len(Steps) = 0 THEN "checkpoint" ELSE "step"
    /\ UNCHANGED <<frontier2, batch_id2>>

\* the second object's fetch returns None: its run returns
FetchNone2 ==
    /\ UNCHANGED <<bvars, gvars, cvars>>
    /\ pc2 = "fetch"
    /\ FetchBatch(batch_id2, BatchSize) = NoBatch
    /\ pc2' = "done"
    /\ UNCHANGED <<frontier2, batch_id2, si2, current2>>

\* one pass of the second object's `for step in self.steps`
StepOk2 ==
    /\ UNCHANGED <<bvars, gvars, cvars>>
    /\ pc2 = "step"
    /\ current2' = Process(Steps[si2 + 1], current2)
    /\ frontier2' = update_step(frontier2, Steps[si2 + 1], batch_id2)
    /\ si2' = si2 + 1
    /\ pc2' = IF si2 + 1 = Len(Steps) THEN "checkpoint" ELSE "step"
    /\ UNCHANGED batch_id2

\* the second object's _save_batch_checkpoint: the file of the batch is (re)written
CheckpointOk2 ==
    /\ pc2 = "checkpoint"
    /\ checkpoints' = [b \in (DOMAIN checkpoints) \cup {current2.batch_id} |->
                          IF b = current2.batch_id THEN current2.data
                          ELSE checkpoints[b]]
    /\ pc2' = "advance"
    /\ UNCHANGED <<frontier2, batch_id2, si2, current2>>
    /\ UNCHANGED <<nrows, nulls, disk, frontier, pc, resume, batch_id, si, current,
                   error, fetch_log, run_N, start_ckpt, start_disk,
                   start_frontier, prior, last_passed>>
    /\ UNCHANGED <<gvars, cvars>>

\* the second object's self.frontier.advance_frontier(batch_id, end_row)
Advance2 ==
    /\ UNCHANGED <<bvars, gvars, cvars>>
    /\ pc2 = "advance"
    /\ frontier2' = advance_frontier(frontier2, batch_id2, current2.end_row)
    /\ pc2' = "save"
    /\ UNCHANGED <<batch_id2, si2, current2>>

\* variant of SaveOk2 with a guard the code does not have: the record on disk is
\* replaced only by one that is further on
SaveOk2_IfNewer ==
    /\ pc2 = "save"
    /\ disk' = IF disk = NoRecord
                  \/ disk.last_completed_batch_id < frontier2.last_completed_batch_id
               THEN FrontierToJson(frontier2) ELSE disk
    /\ batch_id2' = batch_id2 + 1
    /\ pc2' = "fetch"
    /\ UNCHANGED <<frontier2, si2, current2>>
    /\ UNCHANGED <<nrows, nulls, checkpoints, frontier, pc, resume, batch_id, si,
                   current, error, fetch_log, run_N, start_ckpt, start_disk,
                   start_frontier, prior, last_passed>>
    /\ UNCHANGED <<gvars, cvars>>

\* the second object's self.frontier.save(...): the record on disk is replaced by
\* this object's frontier, whatever the record holds; batch_id += 1
SaveOk2 ==
    /\ pc2 = "save"
    /\ disk' = FrontierToJson(frontier2)
    /\ batch_id2' = batch_id2 + 1
    /\ pc2' = "fetch"
    /\ UNCHANGED <<frontier2, si2, current2>>
    /\ UNCHANGED <<nrows, nulls, checkpoints, frontier, pc, resume, batch_id, si,
                   current, error, fetch_log, run_N, start_ckpt, start_disk,
                   start_frontier, prior, last_passed>>
    /\ UNCHANGED <<gvars, cvars>>

RunProgress2 == FetchOk2 \/ FetchNone2 \/ StepOk2 \/ CheckpointOk2 \/ Advance2 \/ SaveOk2

\* two objects on an empty directory over a source without nulls
TwoInit == BatchInit /\ nulls = {}

TwoNext ==
    \/ StartRun(TRUE)
    \/ RunProgress
    \/ Construct2
    \/ StartRun2
    \/ RunProgress2

SpecTwo == TwoInit /\ [][TwoNext]_vars

\* a save of the second object that lowers the durable id
Regress2 == SaveOk2 /\ DurableId(disk') < DurableId(disk)

\* a save of the first object that lowers the durable id
Regress1 == SaveOk /\ DurableId(disk') < DurableId(disk)

\* C33: with two objects active on one directory nothing prevents a regress of
\* the durable frontier: whenever an object is about to save a frontier whose
\* last_completed_batch_id is below the one on disk, the save is possible and it
\* lowers the durable id.
C33_NothingPreventsRegress ==
    /\ (pc2 = "save" /\ frontier2.last_completed_batch_id < DurableId(disk))
          => ENABLED Regress2
    /\ (pc = "save" /\ frontier.last_completed_batch_id < DurableId(disk))
          => ENABLED Regress1

\* the first object persisted batch 2 and returned; the second, started on the
\* empty directory at the same time, has since persisted batch 0 over it
C33_Witness ==
    /\ pc = "done"
    /\ frontier.last_completed_batch_id = 2
    /\ pc2 = "fetch"
    /\ batch_id2 = 1
    /\ DurableId(disk) = 0

\* ---------------------------------------------------------------------------
\* A Frontier object used directly, as the unit tests use it: update_step and
\* advance_frontier called with any name and id, in any order.

\* the batch ids passed to the direct calls: 0..MaxStepId
MaxStepId == 2

\* the names update_step is called with: the pipeline's steps and one more
CallNames == StepNames \cup {"other"}

\* frontier.update_step(name, b); start_frontier keeps the object before the call
UpdateStepCall(name, b) ==
    /\ UNCHANGED <<gvars, cvars, rvars>>
    /\ frontier' = update_step(frontier, name, b)
    /\ start_frontier' = frontier
    /\ UNCHANGED <<nrows, nulls, disk, checkpoints, pc, resume, batch_id, si,
                   current, error, fetch_log, run_N, start_ckpt, start_disk,
                   prior, last_passed>>

\* frontier.advance_frontier(b, end_row) with the end row of a full batch b
AdvanceCall(b) ==
    /\ UNCHANGED <<gvars, cvars, rvars>>
    /\ frontier' = advance_frontier(frontier, b, (b + 1) * BatchSize - 1)
    /\ start_frontier' = frontier
    /\ UNCHANGED <<nrows, nulls, disk, checkpoints, pc, resume, batch_id, si,
                   current, error, fetch_log, run_N, start_ckpt, start_disk,
                   prior, last_passed>>

FrontierInit == BatchInit /\ nrows = 0 /\ nulls = {}

FrontierNext ==
    \/ \E name \in CallNames, b \in 0..MaxStepId : UpdateStepCall(name, b)
    \/ \E b \in 0..MaxStepId : AdvanceCall(b)

SpecFrontier == FrontierInit /\ [][FrontierNext]_vars

\* what update_step(name, b) leaves behind
UpdateStepOutcome(name, b) ==
    /\ DOMAIN frontier'.step_states = (DOMAIN frontier.step_states) \cup {name}
    /\ frontier'.step_states[name] = b
    /\ \A n \in (DOMAIN frontier.step_states) \ {name} :
           frontier'.step_states[n] = frontier.step_states[n]
    /\ frontier'.last_completed_batch_id = frontier.last_completed_batch_id
    /\ frontier'.last_completed_row = frontier.last_completed_row
    /\ frontier'.total_rows_processed = frontier.total_rows_processed

C34_UpdateStepCall ==
    \A name \in CallNames, b \in 0..MaxStepId :
        UpdateStepCall(name, b) => UpdateStepOutcome(name, b)

\* C34: update_step(name, batch_id) sets the recorded completion of name to
\* exactly batch_id whatever the previous value, and changes neither the entries
\* of other names nor last_completed_batch_id, last_completed_row or
\* total_rows_processed.
C34_UpdateStepSetsOneEntry == [][C34_UpdateStepCall]_vars

\* a call has just taken drop_nulls from 2 down to 0, with another entry and an
\* advanced frontier in place
C34_Witness ==
    /\ "drop_nulls" \in DOMAIN start_frontier.step_states
    /\ start_frontier.step_states["drop_nulls"] = 2
    /\ frontier.step_states["drop_nulls"] = 0
    /\ "other" \in DOMAIN frontier.step_states
    /\ frontier.step_states["other"] = 1
    /\ frontier.last_completed_batch_id = 1
    /\ frontier.total_rows_processed = 2 * BatchSize

\* C35: in a graph run that returned, each step's transform was invoked at most
\* once, every step with a connection into an invoked step came earlier in the
\* execution order (and, when it was invoked, earlier among the invocations), and
\* the returned mapping has an entry for exactly the invoked steps, holding the
\* map their transform returned.
C35_InvokedOnceAfterPredecessors ==
    g_result = "returned" =>
        /\ \A j, k \in 1..Len(invoked) : invoked[j].step = invoked[k].step => j = k
        /\ \A k \in 1..Len(invoked), i \in 1..Len(connections) :
              connections[i].to_step = invoked[k].step =>
                  /\ Pos(g_order, connections[i].from_step)
                         < Pos(g_order, invoked[k].step)
                  /\ \A j \in 1..Len(invoked) :
                         invoked[j].step = connections[i].from_step => j < k
        /\ DOMAIN step_outputs = InvokedSteps
        /\ \A k \in 1..Len(invoked) :
              step_outputs[invoked[k].step] = process(invoked[k].step, invoked[k].inputs)

\* a run invoked two steps; the second is fed by the first and also has a
\* connection from a step that was skipped
C35_Witness ==
    /\ g_result = "returned"
    /\ Len(invoked) = 2
    /\ \E i \in 1..Len(connections) :
          /\ connections[i].from_step = invoked[1].step
          /\ connections[i].to_step = invoked[2].step
    /\ \E i \in 1..Len(connections) :
          /\ connections[i].to_step = invoked[2].step
          /\ connections[i].from_step \notin InvokedSteps

\* C36: on every graph that add_step and connect can build, self-connections and
\* duplicate edges included, the depth-first check _has_cycle returns true if and
\* only if Kahn's algorithm in _topological_sort fails to order every registered
\* step, and both exactly when the adjacency relation has a directed cycle.
C36_CycleDetectorsAgree ==
    /\ has_cycle <=> SortRaises
    /\ SortRaises <=> Cyclic

\* a step connected to itself twice, next to a step outside the cycle: both
\* detectors report it
C36_Witness ==
    /\ Len(g_steps) >= 2
    /\ Len(connections) = 2
    /\ connections[1].from_step = connections[1].to_step
    /\ connections[2].from_step = connections[1].from_step
    /\ connections[2].to_step = connections[1].to_step
    /\ has_cycle
    /\ SortRaises
    /\ Len(KahnResult) >= 1

\* the step lies on a directed cycle of the adjacency relation
OnCycle(m) == m \in ReachN(Succ(m), Len(g_steps))

\* the registered steps on a directed cycle or reachable from one
OnOrBelowCycle ==
    {n \in Registered :
        \E m \in Registered :
            OnCycle(m) /\ (n = m \/ n \in ReachN(Succ(m), Len(g_steps)))}

\* C37: on a cyclic graph _topological_sort fails, and its cycle error names
\* exactly the steps absent from the Kahn result, each once, which are exactly
\* the registered steps on a directed cycle or reachable from one; a step
\* neither on nor downstream of a cycle is ordered and is not named.
C37_SortErrorNamesCycleAndBelow ==
    Cyclic =>
        /\ SortRaises
        /\ SeqSet(Unprocessed) = Registered \ SeqSet(KahnResult)
        /\ \A n \in Registered : Count(Unprocessed, n) <= 1
        /\ SeqSet(Unprocessed) = OnOrBelowCycle
        /\ SeqSet(KahnResult) = Registered \ OnOrBelowCycle

\* three steps: one on a cycle, one below it and not on it, one apart from both
C37_Witness ==
    /\ Len(g_steps) = 3
    /\ Cyclic
    /\ \E n \in SeqSet(Unprocessed) : ~OnCycle(n)
    /\ \E n \in Registered : n \notin SeqSet(Unprocessed)

\* the edges into n, each as <<source, index in the source's adjacency list>>
EdgesInto(n) ==
    {e \in Registered \X (1..Len(connections)) :
        e[2] <= Len(g_graph[e[1]]) /\ g_graph[e[1]][e[2]] = n}

\* when edge e is released in the sort: its source's place in the result, then
\* its place in the source's adjacency list
ReleaseTime(e) == Pos(KahnResult, e[1]) * (Len(connections) + 1) + e[2]

\* when the last edge into n is released
EligibleAt(n) ==
    LET T == {ReleaseTime(e) : e \in EdgesInto(n)}
    IN  CHOOSE t \in T : \A u \in T : u <= t

\* C38: the execution order breaks ties by insertion order: the steps that
\* start with in-degree 0 come first, in the order add_step registered them; the
\* other steps follow in the order in which their last incoming edge is
\* released; and a step always comes before every step a connection path leads
\* to from it, so only steps unrelated by a path change places.
C38_InsertionOrderTieBreak ==
    ~Cyclic =>
        /\ SubSeq(KahnResult, 1, Len(InitialQueue)) = SelectSeq(g_steps, ZeroInDegree)
        /\ \A i, j \in (Len(InitialQueue) + 1)..Len(KahnResult) :
              i < j => EligibleAt(KahnResult[i]) < EligibleAt(KahnResult[j])
        /\ \A a \in Registered :
              \A b \in ReachN(Succ(a), Len(g_steps)) :
                  Pos(KahnResult, a) < Pos(KahnResult, b)

\* two steps fed by a third that was registered after them: they run in the
\* order their edges are released, the reverse of their registration order
C38_Witness ==
    /\ ~Cyclic
    /\ Len(g_steps) = 3
    /\ Len(InitialQueue) = 1
    /\ KahnResult[1] = g_steps[3]
    /\ KahnResult[2] = g_steps[2]
    /\ KahnResult[3] = g_steps[1]
    /\ g_steps[1] \notin Succ(g_steps[2])

\* C39: when run is called with start_step set to a registered step and returns,
\* execution starts from that step: it is invoked first, with the initial items
\* on its input channel, and the steps its connections lead to are invoked
\* after it.
C39_StartStepIsFed ==
    (/\ g_result = "returned"
     /\ g_start # NoStart
     /\ g_start \in Registered)
    => /\ invoked # <<>>
       /\ invoked[1].step = g_start
       /\ \E items \in ItemSets :
             invoked[1].inputs =
                 MapPut(EmptyMap, get_input_channels(g_start)[1], items)
       /\ \A k \in 2..Len(invoked) :
             invoked[k].step \in ReachN(Succ(g_start), Len(g_steps))

====
